---- MODULE Spec2Model ----
(***************************************************************************)
(* A model of the scipeds stratified aggregation query engine:             *)
(*   - query specification and validation (scipeds/data/queries.py,        *)
(*     scipeds/utils.py validate_and_listify),                             *)
(*   - the aggregation query builder and the four query operations         *)
(*     (scipeds/data/completions.py),                                      *)
(*   - the query execution adapter (scipeds/data/engine.py).               *)
(***************************************************************************)
EXTENDS Integers, Sequences, FiniteSets, TLC

VARIABLES
    filters,    \* the last filters construction: class, arguments, outcome
    rollup,     \* the last TaxonomyRollup construction: arguments, outcome
    warnings,   \* the warnings emitted by the last operation, in order
    table,      \* the completions fact table of the store (read-only)
    last        \* the last call of a query operation: arguments, outcome

vars == <<filters, rollup, warnings, table, last>>

(***************************************************************************)
(* Bounds of the model.                                                    *)
(***************************************************************************)
MaxListLen == 2
MaxTupleLen == 1
MaxMajornums == 1
MaxRows == 2
MaxAwards == 1

(***************************************************************************)
(* scipeds/constants.py                                                    *)
(***************************************************************************)
START_YEAR == 1984
END_YEAR == 2024
FALL_SURVEYS_START_YEAR == 1984
FALL_SURVEYS_END_YEAR == 2024
SPRING_SURVEYS_START_YEAR == 1986
SPRING_SURVEYS_END_YEAR == 2023

(***************************************************************************)
(* scipeds/data/enums.py: an enumeration is the map from the names of its  *)
(* members to their string values.  The classes derive from str, so a      *)
(* member hashes and compares as its value.                                *)
(***************************************************************************)
RaceEthn ==
    [american_indian |-> "American Indian or Alaska Native",
     asian |-> "Asian",
     black_or_aa |-> "Black or African American",
     hispanic |-> "Hispanic or Latino",
     hawaiian_pi |-> "Native Hawaiian or Other Pacific Islander",
     nonres |-> "Non-resident alien",
     two_or_more |-> "Two or more races",
     white |-> "White",
     unknown |-> "Unknown"]

\* doctor_other has the value of doctor_professional: Enum makes it an alias,
\* not a member of its own.
AwardLevel ==
    [lt_12w |-> "Certificates of less than 12 weeks",
     gt_12w_lt_1y |-> "Certificates of at least 12 weeks but less than 1 year",
     lt1 |-> "Award of less than 1 academic year",
     gt1_lt2 |-> "Award of at least 1 but less than 2 academic years",
     associates |-> "Associate's degree",
     gt2_lt4 |-> "Award of at least 2 but less than 4 academic years",
     bachelors |-> "Bachelor's degree",
     postbac |-> "Postbaccalaureate certificate",
     masters |-> "Master's degree",
     postmas |-> "Post-master's certificates",
     doctor_research |-> "Doctor's degree - research/scholarship",
     doctor_professional |-> "Doctor's degree - professional practice",
     unknown |-> "Unknown"]

FieldTaxonomy ==
    [cip |-> "cip2020",
     original_cip |-> "cipcode",
     ncses_sci_group |-> "ncses_sci_group",
     ncses_field_group |-> "ncses_field_group",
     ncses_detailed_field_group |-> "ncses_detailed_field_group",
     nsf_broad_field |-> "nsf_broad_field",
     dhs_stem |-> "dhs_stem"]

Grouping ==
    [gender |-> "gender",
     race_ethnicity |-> "race_ethnicity",
     intersectional |-> "intersectional"]

(***************************************************************************)
(* Python values.  An element handed to a constructor is a member of an    *)
(* enumeration (tag "member", text = the member's name) or a plain string  *)
(* (tag "str", text = the string).  An argument is a scalar, a list or a    *)
(* tuple of elements; a keyword argument may also be left out.             *)
(***************************************************************************)
Member(name) == [tag |-> "member", text |-> name]

Str(s) == [tag |-> "str", text |-> s]

Scalar(e) == [shape |-> "scalar", elems |-> <<e>>]

List(es) == [shape |-> "list", elems |-> es]

Tuple(es) == [shape |-> "tuple", elems |-> es]

SeqsUpTo(S, n) == UNION {[1..k -> S] : k \in 0..n}

Range(s) == {s[i] : i \in DOMAIN s}

Given(v) == [given |-> TRUE, v |-> v]

\* the keyword is left out: the field takes its default
NotGiven(v) == [given |-> FALSE, v |-> v]

\* Enum lookup by value, EnumClass(value): the name of the member
EnumByValue(cls, s) == CHOOSE m \in DOMAIN cls : cls[m] = s

\* EnumClass(e): the name of the member an element denotes
MemberOfEnum(cls, e) ==
    IF e.tag = "member" THEN e.text ELSE EnumByValue(cls, e.text)

\* `value in set(cls)`: a member is in the set, a string is if it equals
\* (and so hashes as) the value of a member
InEnumSet(cls, e) ==
    IF e.tag = "member" THEN e.text \in DOMAIN cls
    ELSE \E m \in DOMAIN cls : cls[m] = e.text

(***************************************************************************)
(* scipeds/utils.py validate_and_listify: wrap a string (every member is a *)
(* string), list() anything else that is not a list, and raise ValueError  *)
(* on the first value that is not in the enumeration.                      *)
(***************************************************************************)
\* a validate_and_listify that forgets to wrap a single string
validate_and_listify_nowrap(input, cls) ==
    LET lst == IF input.shape \notin {"list", "scalar"} THEN List(input.elems)
               ELSE input
    IN  IF \E i \in DOMAIN lst.elems : ~InEnumSet(cls, lst.elems[i])
        THEN [ok |-> FALSE, v |-> lst]
        ELSE [ok |-> TRUE, v |-> lst]

validate_and_listify(input, cls) ==
    LET lst == IF input.shape = "scalar" THEN List(<<input.elems[1]>>)
               ELSE IF input.shape # "list" THEN List(input.elems)
               ELSE input
    IN  IF \E i \in DOMAIN lst.elems : ~InEnumSet(cls, lst.elems[i])
        THEN [ok |-> FALSE, v |-> lst]
        ELSE [ok |-> TRUE, v |-> lst]

\* pydantic, List[EnumClass]: the value must be a list (lax mode takes a
\* tuple too) and every item a member or the value of a member; the stored
\* list holds the members
ValidateEnumList(cls, v) ==
    IF v.shape \notin {"list", "tuple"}
       \/ \E i \in DOMAIN v.elems : ~InEnumSet(cls, v.elems[i])
    THEN [ok |-> FALSE, v |-> <<>>]
    ELSE [ok |-> TRUE,
          v |-> [i \in DOMAIN v.elems |->
                    IF v.elems[i].tag = "member" THEN v.elems[i].text
                    ELSE EnumByValue(cls, v.elems[i].text)]]

\* CompletionsQueryFilters.race_ethn_valid, then the field's type
race_ethn_valid(arg) ==
    LET pre == validate_and_listify(arg, RaceEthn)
    IN  IF pre.ok THEN ValidateEnumList(RaceEthn, pre.v)
        ELSE [ok |-> FALSE, v |-> <<>>]

\* CompletionsQueryFilters.award_valid, then the field's type
award_valid(arg) ==
    LET pre == validate_and_listify(arg, AwardLevel)
    IN  IF pre.ok THEN ValidateEnumList(AwardLevel, pre.v)
        ELSE [ok |-> FALSE, v |-> <<>>]

\* CompletionsQueryFilters.majornum_valid (an int is wrapped in a list),
\* then the field's type List[Annotated[int, Field(ge=1, le=2)]]
majornum_valid(arg) ==
    LET lst == IF arg.shape = "scalar" THEN List(<<arg.elems[1]>>) ELSE arg
    IN  IF \E i \in DOMAIN lst.elems : ~(lst.elems[i] >= 1 /\ lst.elems[i] <= 2)
        THEN [ok |-> FALSE, v |-> <<>>]
        ELSE [ok |-> TRUE, v |-> lst.elems]

\* Annotated[int, Field(ge=lo, le=hi)]
YearField(y, lo, hi) == y >= lo /\ y <= hi

(***************************************************************************)
(* scipeds/data/queries.py: the filters classes.  pydantic validates the   *)
(* fields that were given (a default is taken as it is), collects the      *)
(* errors, and runs the mode="after" model validators, the base class's    *)
(* first, only when no field failed.                                       *)
(***************************************************************************)
\* warnings.warn(text): a UserWarning
UserWarning(text) == [category |-> "UserWarning", text |-> text]

\* list(RaceEthn), list(AwardLevel): the members in definition order
RaceEthnList ==
    <<"american_indian", "asian", "black_or_aa", "hispanic", "hawaiian_pi",
      "nonres", "two_or_more", "white", "unknown">>

AwardLevelList ==
    <<"lt_12w", "gt_12w_lt_1y", "lt1", "gt1_lt2", "associates", "gt2_lt4",
      "bachelors", "postbac", "masters", "postmas", "doctor_research",
      "doctor_professional", "unknown">>

\* a check_year_range that never raises
check_year_range_noraise(self) == TRUE

\* BaseQueryFilters.check_year_range: FALSE stands for the ValueError
check_year_range(self) == ~(self.start_year > self.end_year)

\* a check_year_range_and_race_ethnicities with the window test off by one
check_year_range_and_race_ethnicities_offbyone(self) ==
    (IF self.start_year < 2010 /\ self.end_year >= 2011
     THEN <<UserWarning("coding changed between 2010 and 2011")>> ELSE <<>>)
    \o
    (IF (self.start_year < 1995 \/ self.end_year < 1995)
        /\ self.race_ethns # <<"unknown">>
     THEN <<UserWarning("no race/ethnicity data before 1995")>> ELSE <<>>)

\* CompletionsQueryFilters.check_year_range_and_race_ethnicities: the
\* warnings it emits, in order; it never raises
check_year_range_and_race_ethnicities(self) ==
    (IF self.start_year <= 2010 /\ self.end_year >= 2011
     THEN <<UserWarning("coding changed between 2010 and 2011")>> ELSE <<>>)
    \o
    (IF (self.start_year < 1995 \/ self.end_year < 1995)
        /\ self.race_ethns # <<"unknown">>
     THEN <<UserWarning("no race/ethnicity data before 1995")>> ELSE <<>>)

\* CompletionsQueryFilters(**args): the outcome and the warnings emitted
CompletionsQueryFilters(args) ==
    LET sy_ok == ~args.start_year.given
                 \/ YearField(args.start_year.v,
                              FALL_SURVEYS_START_YEAR, FALL_SURVEYS_END_YEAR)
        ey_ok == ~args.end_year.given
                 \/ YearField(args.end_year.v,
                              FALL_SURVEYS_START_YEAR, FALL_SURVEYS_END_YEAR)
        re == IF args.race_ethns.given THEN race_ethn_valid(args.race_ethns.v)
              ELSE [ok |-> TRUE, v |-> RaceEthnList]
        al == IF args.award_levels.given THEN award_valid(args.award_levels.v)
              ELSE [ok |-> TRUE, v |-> AwardLevelList]
        mn == IF args.majornums.given THEN majornum_valid(args.majornums.v)
              ELSE [ok |-> TRUE, v |-> <<1, 2>>]
        self == [start_year |-> IF args.start_year.given
                                THEN args.start_year.v ELSE START_YEAR,
                 end_year |-> IF args.end_year.given
                              THEN args.end_year.v ELSE END_YEAR,
                 race_ethns |-> re.v,
                 award_levels |-> al.v,
                 majornums |-> mn.v]
    IN  IF ~(sy_ok /\ ey_ok /\ re.ok /\ al.ok /\ mn.ok)
        THEN [status |-> "raise", exc |-> "ValidationError", obj |-> {},
              warned |-> <<>>]
        ELSE IF ~check_year_range(self)
        THEN [status |-> "raise", exc |-> "ValidationError", obj |-> {},
              warned |-> <<>>]
        ELSE [status |-> "ok", exc |-> "none", obj |-> {self},
              warned |-> check_year_range_and_race_ethnicities(self)]

\* QueryFilters.__init__: the deprecation warning, then the construction
QueryFilters(args) ==
    LET r == CompletionsQueryFilters(args)
    IN  [r EXCEPT !.warned = <<[category |-> "FutureWarning", text |-> "QueryFilters is deprecated"]>> \o @]

(***************************************************************************)
(* The arguments the constructions are tried on.                           *)
(***************************************************************************)
YearInputs == {START_YEAR - 1, START_YEAR, 2010, 2011, END_YEAR, END_YEAR + 1}

YearArgs == {NotGiven(0)} \cup {Given(y) : y \in YearInputs}

RaceElems == {Member("american_indian"), Str("Asian"), Str("male")}

AwardElems == {Member("bachelors"), Str("PhD")}

MajornumElems == {0, 2, 3}

EnumArgs(elems, n) ==
    {NotGiven(List(<<>>))}
    \cup {Given(Scalar(e)) : e \in elems}
    \cup {Given(List(es)) : es \in SeqsUpTo(elems, n)}

FilterArgs ==
    [start_year : YearArgs,
     end_year : YearArgs,
     race_ethns : EnumArgs(RaceElems, MaxListLen)
                  \cup {Given(Tuple(es)) : es \in SeqsUpTo(RaceElems, MaxTupleLen)},
     award_levels : EnumArgs(AwardElems, MaxListLen),
     majornums : EnumArgs(MajornumElems, MaxMajornums)]

\* the arguments of a filters construction that has not run yet
Pending(args) ==
    [cls |-> "none", args |-> args, status |-> "none", exc |-> "none",
     obj |-> {}]

NoFilters ==
    Pending([start_year |-> NotGiven(0), end_year |-> NotGiven(0),
             race_ethns |-> NotGiven(List(<<>>)),
             award_levels |-> NotGiven(List(<<>>)),
             majornums |-> NotGiven(List(<<>>))])

NoRollup == [status |-> "none", exc |-> "none", obj |-> {}]

NoCall == [op |-> "none"]

Constructed(cls, args, r) ==
    [cls |-> cls, args |-> args, status |-> r.status, exc |-> r.exc,
     obj |-> r.obj]

\* a caller constructs CompletionsQueryFilters from the arguments
NewCompletionsQueryFilters ==
    /\ filters.status = "none"
    /\ filters.args \in FilterArgs
    /\ LET r == CompletionsQueryFilters(filters.args)
       IN  /\ filters' = Constructed("CompletionsQueryFilters", filters.args, r)
           /\ warnings' = r.warned
    /\ UNCHANGED <<rollup, table, last>>

\* a caller constructs the deprecated alias QueryFilters from the arguments
NewQueryFilters ==
    /\ filters.status = "none"
    /\ filters.args \in FilterArgs
    /\ LET r == QueryFilters(filters.args)
       IN  /\ filters' = Constructed("QueryFilters", filters.args, r)
           /\ warnings' = r.warned
    /\ UNCHANGED <<rollup, table, last>>

InitFilters ==
    /\ filters \in [cls : {"none"}, args : FilterArgs, status : {"none"},
                    exc : {"none"}, obj : {{}}]
    /\ rollup = NoRollup
    /\ warnings = <<>>
    /\ table = {}
    /\ last = NoCall

NextFilters == NewCompletionsQueryFilters \/ NewQueryFilters

SpecFilters == InitFilters /\ [][NextFilters]_vars

(***************************************************************************)
(* scipeds/data/queries.py TaxonomyRollup.  A value handed to              *)
(* taxonomy_values is a scalar, a list, a tuple, a numpy array (it has     *)
(* tolist), a pandas Series (it has tolist and to_list) or an object that  *)
(* has to_list only; the stored list is a sequence of Python values.       *)
(***************************************************************************)
HasToList(v) == v.shape \in {"ndarray", "series"}

HasTo_List(v) == v.shape \in {"series", "to_list"}

\* the list of the scalars es[1], es[2], ...
Items(es) == [i \in DOMAIN es |-> Scalar(es[i])]

\* TaxonomyRollup.values_valid_list: tolist(), else to_list(), else a value
\* that is not a list becomes the list that holds it
values_valid_list(v) ==
    IF HasToList(v) THEN Items(v.elems)
    ELSE IF HasTo_List(v) THEN Items(v.elems)
    ELSE IF v.shape # "list" THEN <<v>>
    ELSE Items(v.elems)

\* TaxonomyRollup(taxonomy_name=..., taxonomy_values=...)
TaxonomyRollup(args) ==
    IF ~InEnumSet(FieldTaxonomy, args.taxonomy_name)
    THEN [status |-> "raise", exc |-> "ValidationError", obj |-> {}]
    ELSE [status |-> "ok", exc |-> "none",
          obj |-> {[taxonomy_name |->
                        IF args.taxonomy_name.tag = "member"
                        THEN args.taxonomy_name.text
                        ELSE EnumByValue(FieldTaxonomy, args.taxonomy_name.text),
                    taxonomy_values |-> values_valid_list(args.taxonomy_values)]}]

TaxonomyNames ==
    {Member("ncses_detailed_field_group"), Str("cipcode"),
     Str("not_a_valid_taxonomy")}

ValueElems == {"Mathematics and statistics", "12.3456"}

RollupArgs ==
    [taxonomy_name : TaxonomyNames,
     taxonomy_values :
        {Scalar(e) : e \in ValueElems}
        \cup {[shape |-> sh, elems |-> es] :
                sh \in {"list", "tuple", "ndarray", "series", "to_list"},
                es \in SeqsUpTo(ValueElems, MaxListLen)}]

PendingRollup(args) ==
    [args |-> args, status |-> "none", exc |-> "none", obj |-> {}]

\* a caller constructs a TaxonomyRollup from the arguments
NewTaxonomyRollup ==
    /\ rollup.status = "none"
    /\ rollup.args \in RollupArgs
    /\ LET r == TaxonomyRollup(rollup.args)
       IN  rollup' = [args |-> rollup.args, status |-> r.status,
                      exc |-> r.exc, obj |-> r.obj]
    /\ UNCHANGED <<filters, warnings, table, last>>

InitRollup ==
    /\ filters = NoFilters
    /\ rollup \in {PendingRollup(args) : args \in RollupArgs}
    /\ warnings = <<>>
    /\ table = {}
    /\ last = NoCall

NextRollup == NewTaxonomyRollup

SpecRollup == InitRollup /\ [][NextRollup]_vars

(***************************************************************************)
(* The store.  A fact row of the completions table has the key columns and *)
(* n_awards; its classification columns are determined by its CIP code.    *)
(* The rows are those of pipeline/db.py fake_completions_data, two values  *)
(* a column.                                                               *)
(***************************************************************************)
CipInfo ==
    ("27.0101" :>
        [cip2020 |-> "27.0101", cipcode |-> "27.0101",
         ncses_sci_group |-> "Science and engineering",
         ncses_field_group |-> "Math and Computer Sciences",
         ncses_detailed_field_group |-> "Mathematics and Statistics",
         nsf_broad_field |-> "Mathematical and computer sciences",
         dhs_stem |-> "true"])
    @@
    ("42.2706" :>
        [cip2020 |-> "42.2706", cipcode |-> "42.2706",
         ncses_sci_group |-> "Non-science and engineering",
         ncses_field_group |-> "Psychology",
         ncses_detailed_field_group |-> "Psychology",
         nsf_broad_field |-> "Social and behavioral sciences",
         dhs_stem |-> "true"])

\* the fact rows a store may hold: every cell of END_YEAR, and of START_YEAR
\* the mathematics awards of institution 1 to Asian students
FactRows ==
    {r \in [unitid : {1, 2},
            year : {START_YEAR, END_YEAR},
            cip2020 : DOMAIN CipInfo,
            awlevel : {AwardLevel.bachelors},
            majornum : {1},
            race_ethnicity : {RaceEthn.asian, RaceEthn.white},
            gender : {"men", "women"},
            n_awards : 0..MaxAwards] :
        r.year = START_YEAR =>
            /\ r.unitid = 1
            /\ r.cip2020 = "27.0101"
            /\ r.race_ethnicity = RaceEthn.asian}

\* the key of a fact row: one row per unique combination
FactKey(r) ==
    <<r.year, r.unitid, r.cip2020, r.awlevel, r.majornum, r.race_ethnicity,
      r.gender>>

RECURSIVE TablesUpTo(_)
\* the tables of at most n rows with unique keys
TablesUpTo(n) ==
    IF n = 0 THEN {{}}
    ELSE LET smaller == TablesUpTo(n - 1)
         IN  smaller
             \cup UNION {{t \cup {r} :
                            r \in {x \in FactRows :
                                     \A y \in t : FactKey(y) # FactKey(x)}} :
                          t \in smaller}

\* the institutions table: one row per unitid
Institutions ==
    {[unitid |-> 1, institution_name |-> "University 1"],
     [unitid |-> 2, institution_name |-> "University 2"]}

\* the value of column c in fact row r
Col(r, c) ==
    CASE c = "unitid" -> r.unitid
      [] c = "year" -> r.year
      [] c = "gender" -> r.gender
      [] c = "race_ethnicity" -> r.race_ethnicity
      [] OTHER -> CipInfo[r.cip2020][c]

\* the values of the columns cols in row r
KeyOn(r, cols) == [c \in Range(cols) |-> Col(r, c)]

RECURSIVE SumAwards(_)
\* SUM(n_awards) over a set of fact rows; COALESCE(..., 0) of no row
SumAwards(rows) ==
    IF rows = {} THEN 0
    ELSE LET r == CHOOSE x \in rows : TRUE
         IN  r.n_awards + SumAwards(rows \ {r})

(***************************************************************************)
(* scipeds/data/enums.py Grouping: the properties of a member.             *)
(***************************************************************************)
label_suffix(self) ==
    IF self # "intersectional" THEN "within_" \o Grouping[self]
    ELSE Grouping[self]

grouping_columns(self) ==
    IF self # "intersectional" THEN <<Grouping[self]>>
    ELSE <<Grouping.race_ethnicity, Grouping.gender>>

(***************************************************************************)
(* scipeds/data/completions.py _format_query.  The statement is kept as    *)
(* the structure of GROUP_FIELDS_QUERY: the WHERE clauses, the four        *)
(* aggregating selects, the select of valid_combinations and the joins.    *)
(***************************************************************************)
\* format_subquery: SELECT cols, COALESCE(SUM(n_awards), 0) AS name
\*                  FROM filtered {filter} GROUP BY cols
format_subquery(cols, name, filter) ==
    [cols |-> cols, name |-> name, filter |-> filter]

\* format_join: LEFT JOIN table USING (cols), or ",table" when cols is empty
format_join(cols, table_name) ==
    IF cols # <<>> THEN [join |-> "LEFT JOIN", table |-> table_name, using |-> cols]
    ELSE [join |-> ",", table |-> table_name, using |-> <<>>]

_format_query(grouping, agg_type, field_group_cols, field_total_cols, group_total_cols, total_cols, taxonomy, unitids) ==
    LET taxonomy_filter ==
            IF taxonomy.given THEN [where |-> TRUE, column |-> taxonomy.v]
            ELSE [where |-> FALSE, column |-> ""]
        no_filter == [where |-> FALSE, column |-> ""]
        unitid_filter ==
            IF unitids.given /\ unitids.v # <<>>
            THEN [where |-> TRUE, unitids |-> unitids.v]
            ELSE [where |-> FALSE, unitids |-> <<>>]
        fg_name == agg_type \o "_degrees_" \o label_suffix(grouping)
        ft_name == agg_type \o "_degrees_total"
        gt_name == "uni_degrees_" \o label_suffix(grouping)
        field_total_cols2 == Append(field_total_cols, ft_name)
        group_total_cols2 == Append(group_total_cols, gt_name)
        combo_cols == Range(group_total_cols2) \ Range(field_total_cols2)
    IN  [kind |-> "GROUP_FIELDS_QUERY",
         unitid_filter |-> unitid_filter,
         field_total_select |->
            format_subquery(field_total_cols, ft_name, taxonomy_filter),
         group_total_select |->
            format_subquery(group_total_cols, gt_name, no_filter),
         valid_combo_select |->
            [field_cols |-> Range(field_total_cols2),
             group_cols |-> combo_cols,
             using |-> total_cols],
         field_group_total_select |->
            format_subquery(field_group_cols, fg_name, taxonomy_filter),
         total_select |->
            format_subquery(total_cols, "uni_degrees_total", no_filter),
         institution_name |-> \E k \in DOMAIN total_cols : total_cols[k] = "unitid",
         field_group_cols |-> field_group_cols,
         joins |->
            <<format_join(field_group_cols, "field_group_totals"),
              format_join(total_cols, "totals")>>
            \o (IF \E k \in DOMAIN total_cols : total_cols[k] = "unitid"
                THEN <<[join |-> "LEFT JOIN", table |-> "ipeds_directory_info",
                        using |-> <<"unitid">>]>>
                ELSE <<>>)]

(***************************************************************************)
(* What the store answers to GROUP_FIELDS_QUERY.                           *)
(***************************************************************************)
\* SQL NULL in a count column
Null == -1

\* WITH filtered AS (SELECT * FROM completions WHERE ...)
Filtered(tbl, query, params) ==
    {r \in tbl :
        /\ r.year >= params.start_year
        /\ r.year <= params.end_year
        /\ r.race_ethnicity \in {RaceEthn[m] : m \in Range(params.race_ethns)}
        /\ r.awlevel \in {AwardLevel[m] : m \in Range(params.award_levels)}
        /\ r.majornum \in Range(params.majornums)
        /\ query.unitid_filter.where =>
              r.unitid \in Range(query.unitid_filter.unitids)}

\* one aggregating select of format_subquery over the rows of filtered:
\* without GROUP BY there is exactly one row, with it one row per group
Select(sub, rows, params) ==
    LET src == IF sub.filter.where
               THEN {r \in rows :
                        Col(r, sub.filter.column) \in Range(params.taxonomy_values)}
               ELSE rows
    IN  IF sub.cols = <<>> THEN {[key |-> <<>>, n |-> SumAwards(src)]}
        ELSE {[key |-> k,
               n |-> SumAwards({r \in src : KeyOn(r, sub.cols) = k})] :
                 k \in {KeyOn(r, sub.cols) : r \in src}}

\* field_totals JOIN group_totals USING (total_cols), or CROSS JOIN
ValidCombinations(query, field_totals, group_totals) ==
    {p \in [f : field_totals, g : group_totals] :
        \A c \in Range(query.valid_combo_select.using) :
            p.f.key[c] = p.g.key[c]}

\* a column of valid_combinations: field_totals.col, else group_totals.col
VcCol(query, p, c) ==
    IF c \in query.valid_combo_select.field_cols THEN p.f.key[c]
    ELSE p.g.key[c]

\* the rows of the final SELECT, each with the combination it came from
GroupFieldsRows(query, params, tbl) ==
    LET rows == Filtered(tbl, query, params)
        field_totals == Select(query.field_total_select, rows, params)
        group_totals == Select(query.group_total_select, rows, params)
        field_group_totals == Select(query.field_group_total_select, rows, params)
        totals == Select(query.total_select, rows, params)
        valid_combinations == ValidCombinations(query, field_totals, group_totals)
        FgKey(p) == [c \in Range(query.field_group_cols) |-> VcCol(query, p, c)]
        \* LEFT JOIN field_group_totals USING (field_group_cols)
        Fgt(p) == LET m == {x \in field_group_totals : x.key = FgKey(p)}
                  IN  IF m = {} THEN {Null} ELSE {x.n : x \in m}
        \* LEFT JOIN totals USING (total_cols), or the cross join ",totals"
        Tot(p) == IF query.joins[2].join = "," THEN {x.n : x \in totals}
                  ELSE LET m == {x \in totals :
                                   \A c \in DOMAIN x.key : x.key[c] = VcCol(query, p, c)}
                       IN  IF m = {} THEN {Null} ELSE {x.n : x \in m}
        \* LEFT JOIN ipeds_directory_info USING (unitid)
        Name(p) == IF ~query.institution_name THEN {"(no column)"}
                   ELSE LET m == {x \in Institutions :
                                    x.unitid = VcCol(query, p, "unitid")}
                        IN  IF m = {} THEN {"NULL"}
                            ELSE {x.institution_name : x \in m}
    IN  UNION {{[key |-> FgKey(p),
                 field_total_key |-> p.f.key,
                 group_total_key |-> p.g.key,
                 institution_name |-> nm,
                 kind_degrees_label |-> IF fg = Null THEN 0 ELSE fg,
                 kind_degrees_total |-> p.f.n,
                 uni_degrees_label |-> p.g.n,
                 uni_degrees_total |-> t] :
                   fg \in Fgt(p), t \in Tot(p), nm \in Name(p)} :
               p \in valid_combinations}

\* SELECT DISTINCT column FROM completions
DistinctValues(column, tbl) == {Col(r, column) : r \in tbl}

(***************************************************************************)
(* Floating-point values of the statistical layer.  A value is a rational  *)
(* n/d in lowest terms (arithmetic is exact: the rounding of IEEE doubles   *)
(* is not modelled), or one of inf, -inf, nan with their IEEE arithmetic.  *)
(***************************************************************************)
MaxNum == 4
MaxDen == 4
MaxArrayLen == 2

RECURSIVE GCD(_, _)
GCD(a, b) == IF b = 0 THEN a ELSE GCD(b, a % b)

Abs(n) == IF n < 0 THEN -n ELSE n

\* the finite value n/d, d # 0, in lowest terms with a positive denominator
Fin(n, d) ==
    LET g == GCD(Abs(n), Abs(d))
        sgn == IF d < 0 THEN -1 ELSE 1
    IN  [k |-> "fin", n |-> sgn * (n \div g), d |-> sgn * (d \div g)]

Inf == [k |-> "inf", n |-> 1, d |-> 0]

NegInf == [k |-> "-inf", n |-> -1, d |-> 0]

NaN == [k |-> "nan", n |-> 0, d |-> 0]

Num(n) == Fin(n, 1)

IsNaN(a) == a.k = "nan"

IsFinite(a) == a.k = "fin"

\* the sign of a value that is not nan: -1, 0 or 1
Sign(a) == IF a.n < 0 THEN -1 ELSE IF a.n > 0 THEN 1 ELSE 0

Signed(s) == IF s < 0 THEN NegInf ELSE Inf

\* a < b; every comparison with nan is False
Lt(a, b) ==
    /\ ~IsNaN(a) /\ ~IsNaN(b)
    /\ IF IsFinite(a) /\ IsFinite(b) THEN a.n * b.d < b.n * a.d
       ELSE IF IsFinite(a) THEN b.k = "inf"
       ELSE IF IsFinite(b) THEN a.k = "-inf"
       ELSE a.k = "-inf" /\ b.k = "inf"

Eq(a, b) == ~IsNaN(a) /\ ~IsNaN(b) /\ a = b

Le(a, b) == Lt(a, b) \/ Eq(a, b)

Ge(a, b) == Le(b, a)

Neg(a) ==
    IF IsNaN(a) THEN NaN
    ELSE IF IsFinite(a) THEN Fin(-a.n, a.d)
    ELSE Signed(-Sign(a))

Add(a, b) ==
    IF IsNaN(a) \/ IsNaN(b) THEN NaN
    ELSE IF IsFinite(a) /\ IsFinite(b) THEN Fin(a.n * b.d + b.n * a.d, a.d * b.d)
    ELSE IF IsFinite(a) THEN b
    ELSE IF IsFinite(b) THEN a
    ELSE IF a = b THEN a ELSE NaN

Sub(a, b) == Add(a, Neg(b))

Mul(a, b) ==
    IF IsNaN(a) \/ IsNaN(b) THEN NaN
    ELSE IF IsFinite(a) /\ IsFinite(b) THEN Fin(a.n * b.n, a.d * b.d)
    ELSE IF Sign(a) = 0 \/ Sign(b) = 0 THEN NaN
    ELSE Signed(Sign(a) * Sign(b))

\* a / b of numpy and pandas: x/0 is inf or -inf, 0/0 is nan
Div(a, b) ==
    IF IsNaN(a) \/ IsNaN(b) THEN NaN
    ELSE IF IsFinite(a) /\ IsFinite(b)
         THEN IF b.n # 0 THEN Fin(a.n * b.d, a.d * b.n)
              ELSE IF a.n = 0 THEN NaN ELSE Signed(Sign(a))
    ELSE IF IsFinite(a) THEN Num(0)
    ELSE IF IsFinite(b) THEN Signed(Sign(a) * (IF Sign(b) < 0 THEN -1 ELSE 1))
    ELSE NaN

(***************************************************************************)
(* scipeds/utils.py: the transforms of a relative rate, on arrays.         *)
(***************************************************************************)
forward_fold_transform_noinvert(values) ==
    [i \in DOMAIN values |->
        IF Le(values[i], Num(0)) THEN NegInf
        ELSE IF Le(values[i], Num(1))
             THEN Sub(Num(1), values[i])
             ELSE Sub(values[i], Num(1))]

forward_fold_transform(values) ==
    LET null_idx == {i \in DOMAIN values : Le(values[i], Num(0))}
        masked == [i \in DOMAIN values |->
                     IF i \in null_idx THEN NaN ELSE values[i]]
        transformed ==
            [i \in DOMAIN values |->
                IF Le(masked[i], Num(1))
                THEN Sub(Num(1), Div(Num(1), masked[i]))
                ELSE Sub(masked[i], Num(1))]
    IN  [i \in DOMAIN values |->
            IF i \in null_idx THEN NegInf ELSE transformed[i]]

inverse_fold_transform(values) ==
    [i \in DOMAIN values |->
        IF Lt(values[i], Num(0))
        THEN Div(Num(-1), Sub(values[i], Num(1)))
        ELSE Add(values[i], Num(1))]

bounded_ratio_transform_swapped(values) ==
    [i \in DOMAIN values |->
        IF Le(values[i], Num(1))
        THEN Sub(Num(1), Div(Num(1), values[i]))
        ELSE Sub(values[i], Num(1))]

bounded_ratio_transform_unbounded(values) ==
    [i \in DOMAIN values |-> Sub(values[i], Num(1))]

bounded_ratio_transform(values) ==
    [i \in DOMAIN values |->
        IF Ge(values[i], Num(1))
        THEN Sub(Num(1), Div(Num(1), values[i]))
        ELSE Sub(values[i], Num(1))]

inverse_bounded_ratio_transform(values) ==
    LET _invert(x) ==
            IF Le(x, Num(0)) THEN Add(x, Num(1))
            ELSE IF Lt(x, Num(1)) THEN Div(Num(1), Sub(Num(1), x))
            ELSE Inf
    IN  [i \in DOMAIN values |-> _invert(values[i])]

\* the values the transforms are tried on
RateInputs ==
    {Fin(n, d) : n \in -1..MaxNum, d \in 1..MaxDen} \cup {Inf, NegInf, NaN}

ArrayInputs == UNION {[1..k -> RateInputs] : k \in 1..MaxArrayLen}

TransformNames ==
    {"forward_fold_transform", "inverse_fold_transform",
     "bounded_ratio_transform", "inverse_bounded_ratio_transform"}

Transform(name, values) ==
    CASE name = "forward_fold_transform" -> forward_fold_transform(values)
      [] name = "inverse_fold_transform" -> inverse_fold_transform(values)
      [] name = "bounded_ratio_transform" -> bounded_ratio_transform(values)
      [] name = "inverse_bounded_ratio_transform" ->
            inverse_bounded_ratio_transform(values)

\* a caller applies the transform name to the array it holds; origin is the
\* array it started from and ops the transforms applied so far
Apply(name) ==
    /\ last.op = "transforms"
    /\ Len(last.ops) < 2
    /\ last' = [last EXCEPT !.ops = Append(@, name),
                            !.output = Transform(name, last.output)]
    /\ UNCHANGED <<filters, rollup, warnings, table>>

ForwardFoldTransform == Apply("forward_fold_transform")

InverseFoldTransform == Apply("inverse_fold_transform")

BoundedRatioTransform == Apply("bounded_ratio_transform")

InverseBoundedRatioTransform == Apply("inverse_bounded_ratio_transform")

InitTransforms ==
    /\ filters = NoFilters
    /\ rollup = NoRollup
    /\ warnings = <<>>
    /\ table = {}
    /\ last \in {[op |-> "transforms", origin |-> a, ops |-> <<>>, output |-> a] :
                   a \in ArrayInputs}

NextTransforms ==
    \/ ForwardFoldTransform
    \/ InverseFoldTransform
    \/ BoundedRatioTransform
    \/ InverseBoundedRatioTransform

SpecTransforms == InitTransforms /\ [][NextTransforms]_vars

(***************************************************************************)
(* scipeds/utils.py: the statistics derived from a frame of counts.  A     *)
(* frame is the set of its rows; a row maps its column names to values.    *)
(* The count columns carry the names the statement model gives them:       *)
(* kind_degrees_label stands for {rollup,field}_degrees_{label_suffix}.    *)
(***************************************************************************)
MaxCount == 2

Rate(name, numerator, denominator) ==
    [name |-> name, numerator |-> numerator, denominator |-> denominator]

rollup_pct == Rate("rollup_pct", "kind_degrees_label", "kind_degrees_total")

field_pct == Rate("field_pct", "kind_degrees_label", "kind_degrees_total")

uni_pct == Rate("uni_pct", "uni_degrees_label", "uni_degrees_total")

\* df[col] = v, on one row
Assign(row, col, v) == (col :> v) @@ row

RECURSIVE Log2OfPower(_)
Log2OfPower(n) == IF n = 1 THEN 0 ELSE 1 + Log2OfPower(n \div 2)

RECURSIVE IsPowerOf2(_)
IsPowerOf2(n) == n = 1 \/ (n > 1 /\ n % 2 = 0 /\ IsPowerOf2(n \div 2))

\* np.log2: exact on the powers of 2, otherwise the term log2(n/d)
log2(x) ==
    IF IsNaN(x) \/ Lt(x, Num(0)) THEN NaN
    ELSE IF x = Inf THEN Inf
    ELSE IF x = Num(0) THEN NegInf
    ELSE IF x.d = 1 /\ IsPowerOf2(x.n) THEN Num(Log2OfPower(x.n))
    ELSE IF x.n = 1 /\ IsPowerOf2(x.d) THEN Num(-Log2OfPower(x.d))
    ELSE [k |-> "log2", n |-> x.n, d |-> x.d]

\* a transform of utils.py applied to one element of a Series
Elementwise(name, x) == Transform(name, <<x>>)[1]

\* arg is the caller's frame after the call, df the frame returned
calculate_rel_rate(df, subgroup, baseline) ==
    LET copy == df
        Derived(row) ==
            LET sub == Div(Num(row[subgroup.numerator]),
                           Num(row[subgroup.denominator]))
                base == Div(Num(row[baseline.numerator]),
                            Num(row[baseline.denominator]))
                rel_rate == Div(sub, base)
            IN  Assign(Assign(Assign(Assign(Assign(Assign(row,
                    subgroup.name, sub),
                    baseline.name, base),
                    "rel_rate", rel_rate),
                    "log2_rel_rate", log2(rel_rate)),
                    "fold_rel_rate",
                        Elementwise("forward_fold_transform", rel_rate)),
                    "bounded_rel_rate",
                        Elementwise("bounded_ratio_transform", rel_rate))
    IN  [arg |-> df, df |-> {Derived(row) : row \in copy}]

\* test_proportions_2indep(..., method="agresti-caffo"): the statistic and
\* the p-value of one row, kept as terms over the four counts
get_zscore(row, subgroup, baseline) ==
    LET counts == <<row[subgroup.numerator], row[subgroup.denominator],
                    row[baseline.numerator], row[baseline.denominator]>>
    IN  <<[k |-> "statistic", of |-> counts], [k |-> "pvalue", of |-> counts]>>

\* Series.median(): nan is skipped; the middle value of the sorted values, or
\* the mean of the two middle values
Median(rows) ==
    LET valid == {r \in rows : ~IsNaN(r.rel_rate)}
        n == Cardinality(valid)
        Below(v) == Cardinality({r \in valid : Lt(r.rel_rate, v)})
        UpTo(v) == Cardinality({r \in valid : Le(r.rel_rate, v)})
        At(m) == CHOOSE v \in {r.rel_rate : r \in valid} :
                     Below(v) < m /\ m <= UpTo(v)
    IN  IF n = 0 THEN NaN
        ELSE IF n % 2 = 1 THEN At((n + 1) \div 2)
        ELSE Div(Add(At(n \div 2), At(n \div 2 + 1)), Num(2))

\* the columns of the key named by group_cols
GroupKey(row, group_cols) == [c \in Range(group_cols) |-> row.key[c]]

RowMin_first(a, b) == a

\* DataFrame.min(axis=1) over two columns: nan is skipped
RowMin(a, b) ==
    IF IsNaN(a) THEN b
    ELSE IF IsNaN(b) THEN a
    ELSE IF Lt(b, a) THEN b ELSE a

calculate_effect_size(df, field_rate, uni_rate, group_cols) ==
    LET copy == df
        Group(row) == {r \in copy :
                         GroupKey(r, group_cols) = GroupKey(row, group_cols)}
        Derived(row) ==
            LET num == Num(row[field_rate.numerator])
                den == Num(row[field_rate.denominator])
                parity == Sub(num, Mul(row[uni_rate.name], den))
                z1 == get_zscore(row, field_rate, uni_rate)
                median == Median(Group(row))
                expected == RowMin(Mul(Mul(den, row[uni_rate.name]), median), den)
                expected_pct == Rate("median_rel_rate_expected_pct",
                                     "median_rel_rate_expected_degrees",
                                     field_rate.denominator)
                with_expected ==
                    Assign(Assign(Assign(Assign(Assign(row,
                        "excess_degrees_from_parity", parity),
                        "excess_degrees_from_parity_zscore", z1[1]),
                        "excess_degrees_from_parity_pvalue", z1[2]),
                        "median_rel_rate_uni", median),
                        "median_rel_rate_expected_degrees", expected)
                z2 == get_zscore(with_expected, field_rate, expected_pct)
            IN  Assign(Assign(Assign(with_expected,
                    "excess_degrees_from_median_expected", Sub(num, expected)),
                    "excess_degrees_from_median_expected_zscore", z2[1]),
                    "excess_degrees_from_median_expected_pvalue", z2[2])
    IN  [arg |-> df, df |-> {Derived(row) : row \in copy}]

(***************************************************************************)
(* scipeds/data/engine.py get_df_from_query(self, query, query_params=None)*)
(* called with the keyword arguments kw: a keyword the signature does not  *)
(* have is a TypeError of the call, raised before the body runs.  The body *)
(* opens one read-only connection, executes the statement and closes the   *)
(* connection.                                                             *)
(***************************************************************************)
\* the keyword parameters of the signature
GetDfKeywords == {"query_params"}

get_df_from_query(query, query_params, kw, tbl) ==
    IF ~(kw \subseteq GetDfKeywords)
    THEN [status |-> "raise", exc |-> "TypeError", df |-> {},
          opened |-> 0, executed |-> 0]
    ELSE [status |-> "ok", exc |-> "none",
          df |-> IF query.kind = "SELECT DISTINCT"
                 THEN DistinctValues(query.column, tbl)
                 ELSE GroupFieldsRows(query, query_params, tbl),
          opened |-> 1, executed |-> 1]

\* query_filters.model_dump()
model_dump(query_filters) ==
    [start_year |-> query_filters.start_year,
     end_year |-> query_filters.end_year,
     race_ethns |-> query_filters.race_ethns,
     award_levels |-> query_filters.award_levels,
     majornums |-> query_filters.majornums,
     taxonomy_values |-> <<>>]

\* the values a list of scalars holds, as the statement's parameter
Unwrap(items) == [i \in DOMAIN items |-> items[i].elems[1]]

\* the first n items of a list: list[:n]
Take(lst, n) == SubSeq(lst, 1, IF Len(lst) < n THEN Len(lst) ELSE n)

(***************************************************************************)
(* scipeds/data/completions.py _check_rollup_values: one statement, and a  *)
(* warning that names the first three missing values when any is missing.  *)
(***************************************************************************)
_check_rollup_values(rollup_obj, tbl) ==
    LET r == get_df_from_query(
                [kind |-> "SELECT DISTINCT",
                 column |-> FieldTaxonomy[rollup_obj.taxonomy_name]],
                <<>>, {}, tbl)
        values == Unwrap(rollup_obj.taxonomy_values)
        IsMissing(v) == v \notin r.df
        missing == SelectSeq(values, IsMissing)
        n_missing == Len(missing)
    IN  [status |-> r.status, exc |-> r.exc,
         opened |-> r.opened, executed |-> r.executed,
         warned |->
            IF r.status = "ok" /\ n_missing > 0
            THEN <<[category |-> "UserWarning",
                    text |-> "provided taxonomy values were missing from taxonomy",
                    n_missing |-> n_missing,
                    first |-> IF n_missing < 3 THEN n_missing ELSE 3,
                    named |-> Take(missing, 3)]>>
            ELSE <<>>]

(***************************************************************************)
(* scipeds/data/completions.py: the four query operations.  Each returns   *)
(* the outcome of the call: the frame it returns or the exception it       *)
(* raises, the statement it formatted, the warnings it emitted and the     *)
(* connections it opened.  rel_rate and effect_size are left False.        *)
(***************************************************************************)
Raised(exc, warned, opened, executed, query, params) ==
    [status |-> "raise", exc |-> exc, warned |-> warned,
     opened |-> opened, executed |-> executed,
     query |-> query, params |-> params, index |-> <<>>, df |-> {}]

Returned(df, index, warned, opened, executed, query, params) ==
    [status |-> "ok", exc |-> "none", warned |-> warned,
     opened |-> opened, executed |-> executed,
     query |-> query, params |-> params, index |-> index, df |-> df]

\* the statement is formatted, executed, and the frame indexed
FormatAndExecute(grouping, agg_type, field_group_cols, field_total_cols, group_total_cols, total_cols, taxonomy, taxonomy_values, a, index, chk, tbl) ==
    LET query == _format_query(grouping, agg_type, field_group_cols,
                               field_total_cols, group_total_cols, total_cols,
                               taxonomy, a.filter_unitids)
        query_params ==
            IF taxonomy_values.given
            THEN [model_dump(a.query_filters) EXCEPT
                    !.taxonomy_values = taxonomy_values.v]
            ELSE model_dump(a.query_filters)
        r == get_df_from_query(query, query_params,
                               {"query_params", "show_query"}, tbl)
    IN  IF r.status = "raise"
        THEN Raised(r.exc, chk.warned, chk.opened + r.opened,
                    chk.executed + r.executed, {query}, {query_params})
        ELSE Returned(r.df, index, chk.warned, chk.opened + r.opened,
                      chk.executed + r.executed, {query}, {query_params})

NoCheck == [status |-> "ok", exc |-> "none", opened |-> 0, executed |-> 0,
            warned |-> <<>>]

Year(a) == IF a.by_year THEN <<"year">> ELSE <<>>

\* the statistics the operation derives from the frame it got, before it
\* returns the frame indexed
WithStatistics(r, rel_rate, effect_size, subgroup, group_cols) ==
    IF r.status # "ok" THEN r
    ELSE LET with_rel ==
                 IF rel_rate \/ effect_size
                 THEN calculate_rel_rate(r.df, subgroup, uni_pct).df
                 ELSE r.df
             with_effect ==
                 IF effect_size
                 THEN calculate_effect_size(with_rel, subgroup, uni_pct,
                                            group_cols).df
                 ELSE with_rel
         IN  [r EXCEPT !.df = with_effect]

rollup_by_grouping_checkfirst(a, tbl) ==
    LET chk == _check_rollup_values(a.rollup, tbl)
    IN  IF ~InEnumSet(Grouping, a.grouping)
        THEN Raised("ValueError", chk.warned, chk.opened, chk.executed, {}, {})
        ELSE
        LET grouping == MemberOfEnum(Grouping, a.grouping)
            field_group_cols == grouping_columns(grouping) \o Year(a)
        IN  WithStatistics(
                FormatAndExecute(grouping, "rollup", field_group_cols, Year(a),
                                 field_group_cols, Year(a),
                                 Given(FieldTaxonomy[a.rollup.taxonomy_name]),
                                 Given(Unwrap(a.rollup.taxonomy_values)),
                                 a, field_group_cols, chk, tbl),
                a.rel_rate, FALSE, rollup_pct, <<>>)

rollup_by_grouping(a, tbl) ==
    IF ~InEnumSet(Grouping, a.grouping)
    THEN Raised("ValueError", <<>>, 0, 0, {}, {})
    ELSE
    LET grouping == MemberOfEnum(Grouping, a.grouping)
        chk == _check_rollup_values(a.rollup, tbl)
        field_group_cols == grouping_columns(grouping) \o Year(a)
        field_total_cols == Year(a)
        group_total_cols == grouping_columns(grouping) \o Year(a)
        total_cols == Year(a)
    IN  WithStatistics(
            FormatAndExecute(grouping, "rollup", field_group_cols, field_total_cols,
                             group_total_cols, total_cols,
                             Given(FieldTaxonomy[a.rollup.taxonomy_name]),
                             Given(Unwrap(a.rollup.taxonomy_values)),
                             a, field_group_cols, chk, tbl),
            a.rel_rate, FALSE, rollup_pct, <<>>)

field_totals_by_grouping(a, tbl) ==
    IF ~InEnumSet(Grouping, a.grouping) \/ ~InEnumSet(FieldTaxonomy, a.taxonomy)
    THEN Raised("ValueError", <<>>, 0, 0, {}, {})
    ELSE
    LET grouping == MemberOfEnum(Grouping, a.grouping)
        taxonomy == FieldTaxonomy[MemberOfEnum(FieldTaxonomy, a.taxonomy)]
        truthy == a.taxonomy_values.given /\ a.taxonomy_values.v # <<>>
        field_group_cols == <<taxonomy>> \o grouping_columns(grouping) \o Year(a)
        field_total_cols == <<taxonomy>> \o Year(a)
        group_total_cols == grouping_columns(grouping) \o Year(a)
        total_cols == Year(a)
    IN  WithStatistics(
            FormatAndExecute(grouping, "field", field_group_cols, field_total_cols,
                             group_total_cols, total_cols,
                             IF truthy THEN Given(taxonomy) ELSE NotGiven(""),
                             IF truthy THEN a.taxonomy_values ELSE NotGiven(<<>>),
                             a, field_group_cols, NoCheck, tbl),
            a.rel_rate, FALSE, field_pct, <<>>)

uni_rollup_by_grouping(a, tbl) ==
    IF ~InEnumSet(Grouping, a.grouping)
    THEN Raised("ValueError", <<>>, 0, 0, {}, {})
    ELSE
    LET grouping == MemberOfEnum(Grouping, a.grouping)
        chk == _check_rollup_values(a.rollup, tbl)
        field_group_cols == <<"unitid">> \o grouping_columns(grouping) \o Year(a)
        field_total_cols == <<"unitid">> \o Year(a)
        group_total_cols == <<"unitid">> \o grouping_columns(grouping) \o Year(a)
        total_cols == <<"unitid">> \o Year(a)
    IN  WithStatistics(
            FormatAndExecute(grouping, "rollup", field_group_cols, field_total_cols,
                             group_total_cols, total_cols,
                             Given(FieldTaxonomy[a.rollup.taxonomy_name]),
                             Given(Unwrap(a.rollup.taxonomy_values)),
                             a, <<"institution_name">> \o field_group_cols, chk, tbl),
            a.rel_rate, a.effect_size, rollup_pct, Tail(field_group_cols))

uni_field_totals_by_grouping(a, tbl) ==
    IF ~InEnumSet(Grouping, a.grouping) \/ ~InEnumSet(FieldTaxonomy, a.taxonomy)
    THEN Raised("ValueError", <<>>, 0, 0, {}, {})
    ELSE
    LET grouping == MemberOfEnum(Grouping, a.grouping)
        taxonomy == FieldTaxonomy[MemberOfEnum(FieldTaxonomy, a.taxonomy)]
        truthy == a.taxonomy_values.given /\ a.taxonomy_values.v # <<>>
        field_group_cols ==
            <<"unitid", taxonomy>> \o grouping_columns(grouping) \o Year(a)
        field_total_cols == <<"unitid", taxonomy>> \o Year(a)
        group_total_cols == <<"unitid">> \o grouping_columns(grouping) \o Year(a)
        total_cols == <<"unitid">> \o Year(a)
    IN  WithStatistics(
            FormatAndExecute(grouping, "field", field_group_cols, field_total_cols,
                             group_total_cols, total_cols,
                             IF truthy THEN Given(taxonomy) ELSE NotGiven(""),
                             IF truthy THEN a.taxonomy_values ELSE NotGiven(<<>>),
                             a, <<"institution_name">> \o field_group_cols,
                             NoCheck, tbl),
            a.rel_rate, a.effect_size, field_pct, Tail(field_group_cols))

(***************************************************************************)
(* The arguments the query operations are called with: filters and rollups *)
(* are objects their constructors return.                                  *)
(***************************************************************************)
FiltersObject(args) == CHOOSE o \in CompletionsQueryFilters(args).obj : TRUE

RollupObject(args) == CHOOSE o \in TaxonomyRollup(args).obj : TRUE

QueryFiltersChoices ==
    {FiltersObject(NoFilters.args),
     FiltersObject([NoFilters.args EXCEPT
                      !.award_levels = Given(Scalar(Member("masters")))]),
     FiltersObject([NoFilters.args EXCEPT
                      !.start_year = Given(END_YEAR),
                      !.race_ethns = Given(List(<<Str("Asian")>>))])}

MissingValues == <<"Physics", "Chemistry", "Astronomy", "Geosciences">>

RollupChoices ==
    {RollupObject([taxonomy_name |-> Str("ncses_sci_group"),
                   taxonomy_values |-> Scalar("Science and engineering")]),
     RollupObject([taxonomy_name |-> Member("ncses_detailed_field_group"),
                   taxonomy_values |->
                      List(<<"Mathematics and Statistics">> \o MissingValues)])}

NoRollupObject == [taxonomy_name |-> "cip", taxonomy_values |-> <<>>]

GroupingInputs ==
    {Member("gender"), Member("race_ethnicity"), Str("intersectional")}

\* a grouping that is no member of Grouping
InvalidGrouping == Str("age")

UnitidInputs == {NotGiven(<<>>), Given(<<1>>)}

RollupCallArgs ==
    [grouping : GroupingInputs,
     by_year : BOOLEAN,
     query_filters : QueryFiltersChoices,
     filter_unitids : UnitidInputs,
     rollup : RollupChoices,
     taxonomy : {Str("")},
     taxonomy_values : {NotGiven(<<>>)},
     rel_rate : {FALSE},
     effect_size : {FALSE}]
    \cup
    [grouping : {InvalidGrouping},
     by_year : {FALSE},
     query_filters : {FiltersObject(NoFilters.args)},
     filter_unitids : {NotGiven(<<>>)},
     rollup : RollupChoices,
     taxonomy : {Str("")},
     taxonomy_values : {NotGiven(<<>>)},
     rel_rate : {FALSE},
     effect_size : {FALSE}]
    \cup
    [grouping : {Member("gender")},
     by_year : {FALSE},
     query_filters : {FiltersObject(NoFilters.args)},
     filter_unitids : {NotGiven(<<>>), Given(<<>>)},
     rollup : {CHOOSE r \in RollupChoices : TRUE},
     taxonomy : {Str("")},
     taxonomy_values : {NotGiven(<<>>)},
     rel_rate : BOOLEAN,
     effect_size : BOOLEAN]

FieldCallArgs ==
    [grouping : GroupingInputs,
     by_year : BOOLEAN,
     query_filters : QueryFiltersChoices,
     filter_unitids : UnitidInputs,
     rollup : {NoRollupObject},
     taxonomy : {Member("ncses_detailed_field_group")},
     taxonomy_values :
        {NotGiven(<<>>), Given(<<"Mathematics and Statistics">>),
         Given(<<"Psychology">> \o MissingValues)},
     rel_rate : {FALSE},
     effect_size : {FALSE}]
    \cup
    [grouping : GroupingInputs \cup {InvalidGrouping},
     by_year : {FALSE},
     query_filters : {FiltersObject(NoFilters.args)},
     filter_unitids : {NotGiven(<<>>)},
     rollup : {NoRollupObject},
     taxonomy : {Member("ncses_detailed_field_group"),
                 Str("not_a_valid_taxonomy")},
     taxonomy_values : {NotGiven(<<>>)},
     rel_rate : {FALSE},
     effect_size : {FALSE}]
    \cup
    [grouping : {Member("gender")},
     by_year : {FALSE},
     query_filters : {FiltersObject(NoFilters.args)},
     filter_unitids : {NotGiven(<<>>), Given(<<>>)},
     rollup : {NoRollupObject},
     taxonomy : {Member("ncses_detailed_field_group")},
     taxonomy_values : {NotGiven(<<>>)},
     rel_rate : BOOLEAN,
     effect_size : BOOLEAN]

\* rollup_by_grouping and field_totals_by_grouping have no effect_size
\* parameter
RollupCallArgsNoEffect == {a \in RollupCallArgs : ~a.effect_size}

FieldCallArgsNoEffect == {a \in FieldCallArgs : ~a.effect_size}

Called(op, a, r) ==
    [op |-> op, args |-> a, status |-> r.status, exc |-> r.exc,
     opened |-> r.opened, executed |-> r.executed,
     query |-> r.query, params |-> r.params, index |-> r.index, df |-> r.df]

RollupByGrouping ==
    /\ last.op = "none"
    /\ \E a \in RollupCallArgsNoEffect :
          \E r \in {rollup_by_grouping(a, table)} :
              /\ last' = Called("rollup_by_grouping", a, r)
              /\ warnings' = r.warned
    /\ UNCHANGED <<filters, rollup, table>>

FieldTotalsByGrouping ==
    /\ last.op = "none"
    /\ \E a \in FieldCallArgsNoEffect :
          \E r \in {field_totals_by_grouping(a, table)} :
              /\ last' = Called("field_totals_by_grouping", a, r)
              /\ warnings' = r.warned
    /\ UNCHANGED <<filters, rollup, table>>

UniRollupByGrouping ==
    /\ last.op = "none"
    /\ \E a \in RollupCallArgs :
          \E r \in {uni_rollup_by_grouping(a, table)} :
              /\ last' = Called("uni_rollup_by_grouping", a, r)
              /\ warnings' = r.warned
    /\ UNCHANGED <<filters, rollup, table>>

UniFieldTotalsByGrouping ==
    /\ last.op = "none"
    /\ \E a \in FieldCallArgs :
          \E r \in {uni_field_totals_by_grouping(a, table)} :
              /\ last' = Called("uni_field_totals_by_grouping", a, r)
              /\ warnings' = r.warned
    /\ UNCHANGED <<filters, rollup, table>>

Init ==
    /\ filters = NoFilters
    /\ rollup = NoRollup
    /\ warnings = <<>>
    /\ table \in TablesUpTo(MaxRows)
    /\ last = NoCall

Next ==
    \/ RollupByGrouping
    \/ FieldTotalsByGrouping
    \/ UniRollupByGrouping
    \/ UniFieldTotalsByGrouping

Spec == Init /\ [][Next]_vars

(***************************************************************************)
(* The statistics applied to frames shaped as the results of the           *)
(* institution-level operations grouped by gender: one row per institution *)
(* and gender, whose four counts are related as sums over subsets are.     *)
(***************************************************************************)
\* label <= total, label <= uni label <= uni total, and the field and the
\* group overlap in label awards only
CountRows ==
    {c \in [kind_degrees_label : 0..MaxCount, kind_degrees_total : 0..MaxCount,
            uni_degrees_label : 0..MaxCount, uni_degrees_total : 0..MaxCount] :
        /\ c.kind_degrees_label <= c.kind_degrees_total
        /\ c.kind_degrees_label <= c.uni_degrees_label
        /\ c.kind_degrees_total + c.uni_degrees_label - c.kind_degrees_label
              <= c.uni_degrees_total}

FrameRow(unitid, gender, c) ==
    [key |-> [unitid |-> unitid, gender |-> gender],
     institution_name |-> "University",
     kind_degrees_label |-> c.kind_degrees_label,
     kind_degrees_total |-> c.kind_degrees_total,
     uni_degrees_label |-> c.uni_degrees_label,
     uni_degrees_total |-> c.uni_degrees_total]

\* the row of the women of institution 1: a second group of the frame
OtherGroupRows ==
    {FrameRow(1, "women", [kind_degrees_label |-> 1, kind_degrees_total |-> 1,
                           uni_degrees_label |-> 1, uni_degrees_total |-> 1])}

\* the frame of the men of the institutions 1..k, counts[u] the counts of
\* institution u, and the rows other
Frame(counts, other) ==
    {FrameRow(u, "men", counts[u]) : u \in DOMAIN counts} \cup other

Columns(df) == UNION {DOMAIN row : row \in df}

StatsGroupCols == Tail(<<"unitid", "gender">>)

CalculateRelRate ==
    /\ last.op = "stats"
    /\ last.steps = <<>>
    /\ LET r == calculate_rel_rate(last.df, last.rate, uni_pct)
       IN  last' = [last EXCEPT !.steps = Append(@, "calculate_rel_rate"),
                                !.given = last.df,
                                !.arg = r.arg,
                                !.df = r.df]
    /\ UNCHANGED <<filters, rollup, warnings, table>>

\* on a frame without the column uni_pct the first statement raises KeyError
CalculateEffectSize ==
    /\ last.op = "stats"
    /\ last.status = "ok"
    /\ "calculate_effect_size" \notin Range(last.steps)
    /\ IF uni_pct.name \in Columns(last.df)
       THEN LET r == calculate_effect_size(last.df, last.rate, uni_pct,
                                           StatsGroupCols)
            IN  last' = [last EXCEPT !.steps = Append(@, "calculate_effect_size"),
                                     !.given = last.df,
                                     !.arg = r.arg,
                                     !.df = r.df]
       ELSE last' = [last EXCEPT !.steps = Append(@, "calculate_effect_size"),
                                 !.given = last.df,
                                 !.status = "raise",
                                 !.exc = "KeyError"]
    /\ UNCHANGED <<filters, rollup, warnings, table>>

InitStats ==
    /\ filters = NoFilters
    /\ rollup = NoRollup
    /\ warnings = <<>>
    /\ table = {}
    /\ \E k \in 1..MaxRows :
          \E counts \in [1..k -> CountRows] :
              last = [op |-> "stats", rate |-> rollup_pct, steps |-> <<>>,
                      status |-> "ok", exc |-> "none", given |-> {},
                      arg |-> {}, df |-> Frame(counts, OtherGroupRows)]

NextStats == CalculateRelRate \/ CalculateEffectSize

SpecStats == InitStats /\ [][NextStats]_vars

(***************************************************************************)
(* scipeds/data/engine.py get_df_from_query, statement by statement: the   *)
(* call binds its keywords, duckdb.connect opens the read-only connection, *)
(* the with block executes the statement once and fetches the frame, and   *)
(* leaving the block closes the connection, whether the block ended        *)
(* normally or with an exception.  A caller makes up to MaxCalls calls.    *)
(***************************************************************************)
MaxCalls == 2

\* what the store does with the statement of a call
StatementOutcomes == {"ok", "ParserException", "InvalidInputException"}

\* how duckdb.connect ends
ConnectOutcomes == {"ok", "IOException"}

EngineCalls ==
    [kw : {{}, {"query_params"}, {"query_params", "show_query"}},
     connect : ConnectOutcomes,
     statement : StatementOutcomes]

Idle ==
    [op |-> "get_df_from_query", pc |-> "idle", calls |-> 0,
     call |-> [kw |-> {}, connect |-> "ok", statement |-> "ok"],
     open |-> 0, opened |-> 0, attempts |-> 0, method |-> "none",
     pending |-> "none", exc |-> "none"]

\* the with statement is left with the exception pending (or "none"), and the
\* connection is left open
Exit_leak(e, pending) ==
    IF pending = "none"
    THEN [e EXCEPT !.pc = "returned", !.open = 0, !.exc = "none"]
    ELSE [e EXCEPT !.pc = "raised", !.exc = pending]

\* the with statement is left: the connection is closed, and the pending
\* exception, if there is one, goes on to the caller
Exit(e, pending) ==
    [e EXCEPT !.pc = IF pending = "none" THEN "returned" ELSE "raised",
              !.open = 0,
              !.exc = pending]

\* the caller calls get_df_from_query(query, **kw)
CallGetDf ==
    /\ last.op = "get_df_from_query"
    /\ last.pc \in {"idle", "returned", "raised"}
    /\ last.calls < MaxCalls
    /\ \E c \in EngineCalls :
          last' = [last EXCEPT !.pc = "called", !.call = c,
                               !.calls = @ + 1, !.attempts = 0,
                               !.method = "none", !.pending = "none",
                               !.exc = "none"]
    /\ UNCHANGED <<filters, rollup, warnings, table>>

\* binding the arguments, then duckdb.connect(self.db_path, read_only=True)
Connect ==
    /\ last.op = "get_df_from_query"
    /\ last.pc = "called"
    /\ last' =
          IF ~(last.call.kw \subseteq GetDfKeywords)
          THEN [last EXCEPT !.pc = "raised", !.exc = "TypeError"]
          ELSE IF last.call.connect # "ok"
          THEN [last EXCEPT !.pc = "raised", !.exc = last.call.connect]
          ELSE [last EXCEPT !.pc = "connected", !.open = @ + 1,
                            !.opened = @ + 1]
    /\ UNCHANGED <<filters, rollup, warnings, table>>

\* con.execute(query, query_params).df(), or con.sql(query).df()
Execute ==
    /\ last.op = "get_df_from_query"
    /\ last.pc = "connected"
    /\ last' = [last EXCEPT
                  !.pc = "executed",
                  !.attempts = @ + 1,
                  !.method = IF "query_params" \in last.call.kw
                             THEN "execute" ELSE "sql",
                  !.pending = IF last.call.statement = "ok" THEN "none"
                              ELSE last.call.statement]
    /\ UNCHANGED <<filters, rollup, warnings, table>>

\* the with block is left, then return df
Close ==
    /\ last.op = "get_df_from_query"
    /\ last.pc = "executed"
    /\ last' = Exit(last, last.pending)
    /\ UNCHANGED <<filters, rollup, warnings, table>>

InitEngine ==
    /\ filters = NoFilters
    /\ rollup = NoRollup
    /\ warnings = <<>>
    /\ table = {}
    /\ last = Idle

NextEngine == CallGetDf \/ Connect \/ Execute \/ Close

SpecEngine == InitEngine /\ [][NextEngine]_vars

(***************************************************************************)
(* scipeds/data/queries.py: attribute assignment on a constructed filters  *)
(* object.  BaseQueryFilters sets model_config = ConfigDict(extra="forbid")*)
(* and neither frozen nor validate_assignment, so pydantic stores a value  *)
(* assigned to a declared field as it is given, without running the field  *)
(* or model validators, and refuses a name that is no field.               *)
(***************************************************************************)
MaxAssignments == 2

\* the settings of model_config
model_config == [extra |-> "forbid", frozen |-> FALSE, validate_assignment |-> FALSE]

model_fields == {"start_year", "end_year", "race_ethns", "award_levels", "majornums"}

\* obj.name = value: the object afterwards, or the exception raised
setattr(obj, name, value) ==
    IF model_config.frozen
    THEN [status |-> "raise", exc |-> "ValidationError", obj |-> obj]
    ELSE IF model_config.extra # "allow" /\ name \notin model_fields
    THEN [status |-> "raise", exc |-> "ValueError", obj |-> obj]
    ELSE [status |-> "ok", exc |-> "none", obj |-> [obj EXCEPT ![name] = value]]

\* the names a caller assigns to, one of them no field of the model
AssignedNames == model_fields \cup {"institution"}

\* the values a caller assigns to the attribute name
AssignedValues(name) ==
    CASE name \in {"start_year", "end_year"} ->
            {START_YEAR - 1, START_YEAR, END_YEAR, END_YEAR + 1}
      [] name = "majornums" -> {<<1>>, <<3>>, <<>>}
      [] name = "race_ethns" -> {<<"asian">>, <<"martian">>}
      [] name = "award_levels" -> {<<"bachelors">>, <<"diploma">>}
      [] OTHER -> {<<1>>}

\* a caller assigns to an attribute of the filters object it constructed
SetAttr ==
    /\ last.op = "setattr"
    /\ Len(last.assigned) < MaxAssignments
    /\ \E name \in AssignedNames :
          \E value \in AssignedValues(name) :
              \E o \in filters.obj :
                  LET r == setattr(o, name, value)
                  IN  /\ filters' = [filters EXCEPT !.obj = {r.obj}]
                      /\ last' = [last EXCEPT !.assigned = Append(@, name),
                                              !.status = r.status,
                                              !.exc = r.exc]
    /\ UNCHANGED <<rollup, warnings, table>>

\* the objects are the filters the query operations are called with
InitMutation ==
    /\ \E o \in QueryFiltersChoices :
          /\ filters = [cls |-> "CompletionsQueryFilters", args |-> NoFilters.args,
                        status |-> "ok", exc |-> "none", obj |-> {o}]
          /\ last = [op |-> "setattr", constructed |-> o, assigned |-> <<>>,
                     status |-> "ok", exc |-> "none"]
    /\ rollup = NoRollup
    /\ warnings = <<>>
    /\ table = {}

NextMutation == SetAttr

SpecMutation == InitMutation /\ [][NextMutation]_vars

(***************************************************************************)
(* A caller's sequence: it constructs the filters and, for a rollup        *)
(* operation, the TaxonomyRollup, and passes the objects to a query        *)
(* operation.  An exception of a constructor propagates to the caller, so  *)
(* the operation is called only with objects that were constructed.        *)
(***************************************************************************)
CallFilterArgs ==
    {NoFilters.args,
     [NoFilters.args EXCEPT !.start_year = Given(START_YEAR - 1)],
     [NoFilters.args EXCEPT !.race_ethns = Given(Scalar(Str("male")))]}

CallRollupArgs ==
    {[taxonomy_name |-> n, taxonomy_values |-> Scalar("12.3456")] :
        n \in {Member("ncses_detailed_field_group"),
               Str("not_a_valid_taxonomy")}}

CallTaxonomies ==
    {Member("ncses_detailed_field_group"), Str("not_a_valid_taxonomy")}

\* the arguments of the call: the constructed objects, and the defaults
CallArgs(grouping, taxonomy) ==
    [grouping |-> grouping,
     by_year |-> FALSE,
     query_filters |-> CHOOSE o \in filters.obj : TRUE,
     filter_unitids |-> NotGiven(<<>>),
     rollup |-> IF rollup.status = "ok"
                THEN CHOOSE o \in rollup.obj : TRUE ELSE NoRollupObject,
     taxonomy |-> taxonomy,
     taxonomy_values |-> NotGiven(<<>>),
     rel_rate |-> FALSE,
     effect_size |-> FALSE]

\* the caller holds the filters and has not called an operation yet
CallReady == last.op = "none" /\ filters.status = "ok"

CallGroupings == GroupingInputs \cup {InvalidGrouping}

\* the outcome r of the operation op called with the arguments a
Finish(op, a, r) ==
    /\ last' = Called(op, a, r)
    /\ warnings' = warnings \o r.warned
    /\ UNCHANGED <<filters, rollup, table>>

CallRollupByGrouping ==
    /\ CallReady
    /\ rollup.status = "ok"
    /\ \E a \in {CallArgs(g, Str("")) : g \in CallGroupings} :
          \E r \in {rollup_by_grouping(a, table)} :
              Finish("rollup_by_grouping", a, r)

CallFieldTotalsByGrouping ==
    /\ CallReady
    /\ \E a \in {CallArgs(g, t) : g \in CallGroupings, t \in CallTaxonomies} :
          \E r \in {field_totals_by_grouping(a, table)} :
              Finish("field_totals_by_grouping", a, r)

CallUniRollupByGrouping ==
    /\ CallReady
    /\ rollup.status = "ok"
    /\ \E a \in {CallArgs(g, Str("")) : g \in CallGroupings} :
          \E r \in {uni_rollup_by_grouping(a, table)} :
              Finish("uni_rollup_by_grouping", a, r)

CallUniFieldTotalsByGrouping ==
    /\ CallReady
    /\ \E a \in {CallArgs(g, t) : g \in CallGroupings, t \in CallTaxonomies} :
          \E r \in {uni_field_totals_by_grouping(a, table)} :
              Finish("uni_field_totals_by_grouping", a, r)

InitValidation ==
    /\ filters \in {Pending(args) : args \in CallFilterArgs}
    /\ rollup \in {PendingRollup(args) : args \in CallRollupArgs}
    /\ warnings = <<>>
    /\ table \in TablesUpTo(1)
    /\ last = NoCall

NextValidation ==
    \/ NewQueryFilters
    \/ NewTaxonomyRollup
    \/ CallRollupByGrouping
    \/ CallFieldTotalsByGrouping
    \/ CallUniRollupByGrouping
    \/ CallUniFieldTotalsByGrouping

SpecValidation == InitValidation /\ [][NextValidation]_vars

(***************************************************************************)
(* pipeline/cip_crosswalk.py CIPCodeCrosswalk.  The crosswalk files are    *)
(* data: each stage's code map and title map is one of the maps below over *)
(* three codes.  A dict is a function on its keys; self.crosswalk keeps    *)
(* its keys in the order they were inserted.  codes is a str or a list of  *)
(* str, titles likewise or None.                                           *)
(***************************************************************************)
CipCodes == {"07.0103", "52.0302", "52.0399"}

\* a dict without keys
EmptyDict == [c \in {} |-> ""]

\* the code maps a crosswalk file may hold
CipMapChoices ==
    {EmptyDict,
     [c \in {"07.0103"} |-> "52.0302"],
     [c \in {"52.0302"} |-> "52.0399"],
     [c \in {"52.0399"} |-> "07.0103"]}

\* the title a stage gives a destination code
TitleOf(year_range, code) == [edition |-> year_range[2] + 1, of |-> code]

\* the title maps a crosswalk file may hold for the stage
TitleMapChoices(year_range) ==
    {EmptyDict, [c \in {"52.0302", "52.0399"} |-> TitleOf(year_range, c)]}

\* the year ranges in the order __init__ loads their crosswalks
LoadOrder ==
    <<<<2010, 2019>>, <<2000, 2009>>, <<1990, 1999>>, <<1984, 1991>>>>

\* the files of the four stages
\* title_map tells whether the file of the stage holds titles
CrosswalkFiles ==
    [DOMAIN LoadOrder -> [cip_map : CipMapChoices, title_map : BOOLEAN]]

RECURSIVE sorted(_)
sorted_as_loaded(keys) == keys

\* sorted(keys, key=lambda x: x[0])
sorted(keys) ==
    IF keys = <<>> THEN <<>>
    ELSE LET i == CHOOSE k \in DOMAIN keys :
                    \A j \in DOMAIN keys :
                        \/ keys[k][1] < keys[j][1]
                        \/ keys[k][1] = keys[j][1] /\ k <= j
             rest == [j \in 1..(Len(keys) - 1) |->
                        IF j < i THEN keys[j] ELSE keys[j + 1]]
         IN  <<keys[i]>> \o sorted(rest)

\* min(yr[0] for yr in year_ranges)
MinStart(year_ranges) ==
    CHOOSE y \in {year_ranges[i][1] : i \in DOMAIN year_ranges} :
        \A i \in DOMAIN year_ranges : y <= year_ranges[i][1]

\* CIPCodeCrosswalk(): the four crosswalks loaded from the files
CIPCodeCrosswalk(files) ==
    LET crosswalk ==
            [yr \in Range(LoadOrder) |->
                LET i == CHOOSE k \in DOMAIN LoadOrder : LoadOrder[k] = yr
                IN  [cip_map |-> files[i].cip_map,
                     title_map |-> IF files[i].title_map
                                   THEN CHOOSE m \in TitleMapChoices(yr) :
                                            m # EmptyDict
                                   ELSE EmptyDict]]
        year_ranges == sorted(LoadOrder)
    IN  [crosswalk |-> crosswalk,
         year_ranges |-> year_ranges,
         min_year |-> MinStart(year_ranges)]

\* scipeds/utils.py convert_to_series on a str or a list
convert_to_series(s) == IF s.shape = "scalar" THEN <<s.elems[1]>> ELSE s.elems

\* a missing value of a Series
NaT == [edition |-> 0, of |-> "nan"]

\* codes.map(d).fillna(other)
MapFillna(codes, d, other) ==
    [i \in DOMAIN codes |->
        IF codes[i] \in DOMAIN d THEN d[codes[i]] ELSE other[i]]

walk(self, year_range, codes, titles) ==
    LET mappers == self.crosswalk[year_range]
        new_codes == MapFillna(codes, mappers.cip_map, codes)
        new_titles ==
            IF titles.given
            THEN MapFillna(codes, mappers.title_map, titles.v)
            ELSE MapFillna(new_codes, mappers.title_map,
                           [i \in DOMAIN codes |-> NaT])
    IN  [codes |-> new_codes, titles |-> Given(new_titles)]

RECURSIVE WalkForward(_, _, _, _, _)
\* for yr in self.year_ranges: if year <= yr[-1]: walk
WalkForward(self, year, year_ranges, codes, titles) ==
    IF year_ranges = <<>> THEN [codes |-> codes, titles |-> titles]
    ELSE LET yr == Head(year_ranges)
             w == IF year <= yr[2] THEN walk(self, yr, codes, titles)
                  ELSE [codes |-> codes, titles |-> titles]
         IN  WalkForward(self, year, Tail(year_ranges), w.codes, w.titles)

convert_to_cip2020(self, year, codes, titles) ==
    IF year < self.min_year
    THEN [status |-> "raise", exc |-> "ValueError", df |-> <<>>]
    ELSE LET w == WalkForward(self, year, self.year_ranges,
                              convert_to_series(codes),
                              IF titles.given
                              THEN Given(convert_to_series(titles.v))
                              ELSE NotGiven(<<>>))
         IN  [status |-> "ok", exc |-> "none",
              df |-> [i \in DOMAIN w.codes |->
                        IF w.titles.given
                        THEN [cip2020 |-> w.codes[i],
                              cip2020_title |-> w.titles.v[i]]
                        ELSE [cip2020 |-> w.codes[i]]]]

\* the years, codes and titles convert_to_cip2020 is called with
CrosswalkYears == {1983, 1984, 1990, 1991, 1992, 2000, 2010, 2020}

GivenTitle(code) == [edition |-> 0, of |-> code]

CodeInputs ==
    {Scalar("07.0103"), List(<<"07.0103", "52.0302", "52.0399">>)}

TitlesFor(codes) ==
    {NotGiven(<<>>),
     Given([codes EXCEPT
              !.elems = [i \in DOMAIN codes.elems |-> GivenTitle(codes.elems[i])]])}

NoCrosswalk ==
    [op |-> "crosswalk", self |-> {}, status |-> "none", exc |-> "none",
     year |-> 0, codes |-> <<>>, titles |-> NotGiven(<<>>), df |-> <<>>]

\* cw = CIPCodeCrosswalk()
NewCIPCodeCrosswalk ==
    /\ last.op = "crosswalk"
    /\ last.self = {}
    /\ \E files \in CrosswalkFiles :
          last' = [last EXCEPT !.self = {CIPCodeCrosswalk(files)}]
    /\ UNCHANGED <<filters, rollup, warnings, table>>

\* cw.convert_to_cip2020(year, codes, titles)
ConvertToCip2020 ==
    /\ last.op = "crosswalk"
    /\ last.status = "none"
    /\ \E self \in last.self, year \in CrosswalkYears, codes \in CodeInputs :
          \E titles \in TitlesFor(codes) :
              \E r \in {convert_to_cip2020(self, year, codes, titles)} :
                  last' = [last EXCEPT !.year = year,
                                       !.codes = convert_to_series(codes),
                                       !.titles = titles,
                                       !.status = r.status,
                                       !.exc = r.exc,
                                       !.df = r.df]
    /\ UNCHANGED <<filters, rollup, warnings, table>>

InitCrosswalk ==
    /\ filters = NoFilters
    /\ rollup = NoRollup
    /\ warnings = <<>>
    /\ table = {}
    /\ last = NoCrosswalk

NextCrosswalk == NewCIPCodeCrosswalk \/ ConvertToCip2020

SpecCrosswalk == InitCrosswalk /\ [][NextCrosswalk]_vars

(***************************************************************************)
(* pipeline/cip_crosswalk.py: NCSESClassifier.  The classification table   *)
(* is read from a file that is not part of the sources: its rows are drawn *)
(* from a fixed family over three codes.                                   *)
(***************************************************************************)
NCSESSciGroup ==
    [sci |-> "Science and engineering",
     non_sci |-> "Non-science and engineering",
     unknown |-> "Not categorized in NCSES crosswalk"]

NCSESFieldGroup ==
    [business_and_mgmt |-> "Business and Management",
     education |-> "Education",
     sci_eng_technologies |-> "Science and Engineering Technologies",
     social_sciences |-> "Social Sciences",
     nonsci_other |-> "Other Non-sciences or Unknown Disciplines",
     art_music |-> "Arts and Music",
     humanities |-> "Humanities",
     math_cs |-> "Math and Computer Sciences",
     nonsci_life_sci |-> "Life Sciences (Non-S&E)",
     sci_life_sci |-> "Life Sciences",
     home_ec |-> "Vocational Studies and Home Economics",
     engineering |-> "Engineering",
     phys_sci |-> "Physical Sciences",
     communication_librarianship |-> "Communication and Librarianship",
     psych |-> "Psychology",
     religion |-> "Religion and Theology",
     interdisc |-> "Interdisciplinary or Other Sciences",
     social_service |-> "Social Service Professions",
     geosci |-> "Geosciences",
     arch_dsgn |-> "Architecture and Environmental Design",
     law |-> "Law",
     unknown |-> "Not categorized in NCSES crosswalk"]

\* the members the classifier and its table name
NCSESDetailedFieldGroup ==
    [business_and_mgmt |-> "Business and Management",
     home_ec |-> "Vocational Studies and Home Economics",
     engineering_technologies |-> "Engineering Technologies",
     languages |-> "Foreign Languages",
     ag_sci |-> "Agricultural Sciences",
     social_sci_other |-> "Other Social Sciences",
     medical_sci |-> "Medical Sciences",
     arch_dsgn |-> "Architecture and Environmental Design",
     aerospace_eng |-> "Aerospace Engineering",
     unknown |-> "Not categorized in NCSES crosswalk"]

NSFBroadField ==
    [ag_and_bio_sci |-> "Agricultural and biological sciences",
     math_cs |-> "Mathematical and computer sciences",
     phys_earth_sci |-> "Physical and earth sciences",
     soc_behav_sci |-> "Social and behavioral sciences",
     eng |-> "Engineering",
     non_stem |-> "Non-science and engineering"]

\* a dict literal: the function with the given keys and values
Dict(pairs) ==
    [k \in {p[1] : p \in pairs} |-> (CHOOSE p \in pairs : p[1] = k)[2]]

NSF_REPORT_BROAD_FIELD_MAP ==
    Dict({<<NCSESFieldGroup.social_sciences, NSFBroadField.soc_behav_sci>>,
          <<NCSESFieldGroup.math_cs, NSFBroadField.math_cs>>,
          <<NCSESFieldGroup.sci_life_sci, NSFBroadField.ag_and_bio_sci>>,
          <<NCSESFieldGroup.engineering, NSFBroadField.eng>>,
          <<NCSESFieldGroup.phys_sci, NSFBroadField.phys_earth_sci>>,
          <<NCSESFieldGroup.psych, NSFBroadField.soc_behav_sci>>,
          <<NCSESFieldGroup.geosci, NSFBroadField.phys_earth_sci>>})

TableRow(sg, fg, dfg, title) ==
    [ncses_sci_group |-> sg, ncses_field_group |-> fg,
     ncses_detailed_field_group |-> dfg, ncses_cip_string |-> title]

MISSING_CODES ==
    Dict({<<"03.0405",
            TableRow(NCSESSciGroup.sci, NCSESFieldGroup.sci_life_sci,
                     NCSESDetailedFieldGroup.ag_sci,
                     "Logging/Timber Harvesting")>>,
          <<"15.1799",
            TableRow(NCSESSciGroup.non_sci,
                     NCSESFieldGroup.sci_eng_technologies,
                     NCSESDetailedFieldGroup.engineering_technologies,
                     "Energy Systems Technologies/Technicials, Other")>>,
          <<"16.1402",
            TableRow(NCSESSciGroup.non_sci, NCSESFieldGroup.humanities,
                     NCSESDetailedFieldGroup.languages,
                     "Indonesian/Malay Languages and Literatures")>>,
          <<"51.2404",
            TableRow(NCSESSciGroup.non_sci, NCSESFieldGroup.nonsci_life_sci,
                     NCSESDetailedFieldGroup.medical_sci,
                     "Veterinary Medicine (DVM)")>>,
          <<"51.3205",
            TableRow(NCSESSciGroup.sci, NCSESFieldGroup.social_sciences,
                     NCSESDetailedFieldGroup.social_sci_other,
                     "History of Medicine")>>,
          <<"20.0102",
            TableRow(NCSESSciGroup.non_sci, NCSESFieldGroup.home_ec,
                     NCSESDetailedFieldGroup.home_ec,
                     "Child Development, Care & Guidance")>>,
          <<"07.0608",
            TableRow(NCSESSciGroup.non_sci,
                     NCSESFieldGroup.business_and_mgmt,
                     NCSESDetailedFieldGroup.business_and_mgmt,
                     "Word Processing")>>})

\* the rows a classification table may hold, by CIP code, as the file
\* spells them: a non-science life sciences row has the field group of the
\* science one
TableRowChoices ==
    Dict({<<"14.0202",
            TableRow(NCSESSciGroup.sci, NCSESFieldGroup.engineering,
                     NCSESDetailedFieldGroup.aerospace_eng,
                     "Astronautical Engineering")>>,
          <<"04.0200",
            TableRow(NCSESSciGroup.non_sci, NCSESFieldGroup.arch_dsgn,
                     NCSESDetailedFieldGroup.arch_dsgn,
                     "Pre-Architecture Studies")>>,
          <<"51.0507",
            TableRow(NCSESSciGroup.non_sci, NCSESFieldGroup.sci_life_sci,
                     NCSESDetailedFieldGroup.medical_sci,
                     "Oral/Maxillofacial Surgery")>>})

\* the tables: the sets of codes whose row the file holds
ClassificationTables == SUBSET DOMAIN TableRowChoices

\* NCSESClassifier(): the maps built from the table, then MISSING_CODES
NCSESClassifier(file) ==
    LET df == [c \in file |->
                 LET r == TableRowChoices[c]
                     mask == /\ r.ncses_sci_group = NCSESSciGroup.non_sci
                             /\ r.ncses_field_group =
                                    NCSESFieldGroup.sci_life_sci
                 IN  IF mask
                     THEN [r EXCEPT !.ncses_field_group =
                                        NCSESFieldGroup.nonsci_life_sci]
                     ELSE r]
        updated == [c \in DOMAIN df \cup DOMAIN MISSING_CODES |->
                      IF c \in DOMAIN MISSING_CODES THEN MISSING_CODES[c]
                      ELSE df[c]]
    IN  [sg_map |-> [c \in DOMAIN updated |-> updated[c].ncses_sci_group],
         fg_map |-> [c \in DOMAIN updated |-> updated[c].ncses_field_group],
         dfg_map |-> [c \in DOMAIN updated |->
                        updated[c].ncses_detailed_field_group],
         title_map |-> [c \in DOMAIN updated |-> updated[c].ncses_cip_string]]

\* a null value of a Series of strings
NoValue == "NaN"

\* series.map(d): a value that is no key of d, a null one included, is null
SeriesMap(series, d) ==
    [i \in DOMAIN series |->
        IF series[i] \in DOMAIN d THEN d[series[i]] ELSE NoValue]

\* series.combine_first(other) on equal indexes
combine_first(series, other) ==
    [i \in DOMAIN series |->
        IF series[i] # NoValue THEN series[i] ELSE other[i]]

\* series.fillna(value)
fillna(series, value) ==
    [i \in DOMAIN series |->
        IF series[i] # NoValue THEN series[i] ELSE value]

get_titles(self, codes) == fillna(SeriesMap(codes, self.title_map), "Unknown")

\* the NSF broad fields of the field groups fgs and the science groups sgs
NsfOf(fgs, sgs) ==
    combine_first(SeriesMap(fgs, NSF_REPORT_BROAD_FIELD_MAP),
                  SeriesMap(sgs, NSF_REPORT_BROAD_FIELD_MAP))

classify(self, original_codes, codes_2020) ==
    LET codes == convert_to_series(original_codes)
        titles == get_titles(self, codes)
        sgs == SeriesMap(codes, self.sg_map)
        fgs == SeriesMap(codes, self.fg_map)
        dfgs == SeriesMap(codes, self.dfg_map)
        nsfs == NsfOf(fgs, sgs)
        c2020 == convert_to_series(codes_2020.v)
        sgs_2020 == SeriesMap(c2020, self.sg_map)
        fgs_2020 == SeriesMap(c2020, self.fg_map)
        dfgs_2020 == SeriesMap(c2020, self.dfg_map)
        nsfs_2020 == NsfOf(fgs_2020, sgs_2020)
        both(s, s_2020) ==
            IF codes_2020.given THEN combine_first(s, s_2020) ELSE s
    IN  IF codes_2020.given /\ Len(c2020) # Len(codes)
        THEN \* sgs_2020.index = sgs.index
             [status |-> "raise", exc |-> "ValueError", df |-> <<>>]
        ELSE IF "unknown" \notin DOMAIN NSFBroadField
        THEN \* NSFBroadField.unknown
             [status |-> "raise", exc |-> "AttributeError", df |-> <<>>]
        ELSE LET sg == fillna(both(sgs, sgs_2020), NCSESSciGroup.unknown)
                 fg == fillna(both(fgs, fgs_2020), NCSESFieldGroup.unknown)
                 dfg == fillna(both(dfgs, dfgs_2020),
                               NCSESDetailedFieldGroup.unknown)
                 nsf == fillna(both(nsfs, nsfs_2020), NSFBroadField.unknown)
             IN  [status |-> "ok", exc |-> "none",
                  df |-> [i \in DOMAIN codes |->
                            [cipcode |-> codes[i],
                             cip_title |-> titles[i],
                             ncses_sci_group |-> sg[i],
                             ncses_field_group |-> fg[i],
                             ncses_detailed_field_group |-> dfg[i],
                             nsf_broad_field |-> nsf[i]]]]

\* the codes classify is called with: three a table may hold, one of
\* MISSING_CODES and one that no table holds
ClassifyCodes == {"14.0202", "04.0200", "51.0507", "03.0405", "98.7654"}

OriginalCodeInputs ==
    {Scalar(c) : c \in ClassifyCodes}
        \cup {List(<<c, "98.7654">>) : c \in ClassifyCodes}

Codes2020Inputs ==
    {NotGiven(Scalar(""))}
        \cup {Given(Scalar(c)) : c \in ClassifyCodes}
        \cup {Given(List(<<"98.7654", c>>)) : c \in ClassifyCodes}

NoClassifier ==
    [op |-> "classifier", self |-> {}, status |-> "none", exc |-> "none",
     original_codes |-> <<>>, codes_2020 |-> NotGiven(<<>>), df |-> <<>>]

\* nc = NCSESClassifier()
NewNCSESClassifier ==
    /\ last.op = "classifier"
    /\ last.self = {}
    /\ \E file \in ClassificationTables :
          last' = [last EXCEPT !.self = {NCSESClassifier(file)}]
    /\ UNCHANGED <<filters, rollup, warnings, table>>

\* nc.classify(original_codes, codes_2020)
Classify ==
    /\ last.op = "classifier"
    /\ last.status = "none"
    /\ \E self \in last.self, original_codes \in OriginalCodeInputs,
          codes_2020 \in Codes2020Inputs :
          \E r \in {classify(self, original_codes, codes_2020)} :
              last' = [last EXCEPT
                         !.original_codes = convert_to_series(original_codes),
                         !.codes_2020 =
                             IF codes_2020.given
                             THEN Given(convert_to_series(codes_2020.v))
                             ELSE NotGiven(<<>>),
                         !.status = r.status,
                         !.exc = r.exc,
                         !.df = r.df]
    /\ UNCHANGED <<filters, rollup, warnings, table>>

InitClassifier ==
    /\ filters = NoFilters
    /\ rollup = NoRollup
    /\ warnings = <<>>
    /\ table = {}
    /\ last = NoClassifier

NextClassifier == NewNCSESClassifier \/ Classify

SpecClassifier == InitClassifier /\ [][NextClassifier]_vars

(***************************************************************************)
(* scipeds/data/queries.py: FallEnrollmentQueryFilters.  The enumeration   *)
(* Geo it imports is not defined in the sources: it is taken as the         *)
(* enumeration of the state codes of residence, two of them here.          *)
(***************************************************************************)
Geo == [AL |-> "AL", AK |-> "AK"]

\* list(Geo)
GeoList == <<"AL", "AK">>

\* FallEnrollmentQueryFilters.geo_valid, then the field's type
geo_valid(arg) ==
    LET pre == validate_and_listify(arg, Geo)
    IN  IF pre.ok THEN ValidateEnumList(Geo, pre.v)
        ELSE [ok |-> FALSE, v |-> <<>>]

\* FallEnrollmentQueryFilters(**args): a field that is given is validated
\* against the span of the spring surveys, one that is not takes the
\* default of the class as it is; then BaseQueryFilters.check_year_range
FallEnrollmentQueryFilters(args) ==
    LET sy_ok == ~args.start_year.given
                 \/ YearField(args.start_year.v, SPRING_SURVEYS_START_YEAR,
                              SPRING_SURVEYS_END_YEAR)
        ey_ok == ~args.end_year.given
                 \/ YearField(args.end_year.v, SPRING_SURVEYS_START_YEAR,
                              SPRING_SURVEYS_END_YEAR)
        ge == IF args.geos.given THEN geo_valid(args.geos.v)
              ELSE [ok |-> TRUE, v |-> GeoList]
        self == [start_year |-> IF args.start_year.given
                                THEN args.start_year.v ELSE START_YEAR,
                 end_year |-> IF args.end_year.given
                              THEN args.end_year.v ELSE END_YEAR,
                 geos |-> ge.v]
    IN  IF ~(sy_ok /\ ey_ok /\ ge.ok)
        THEN [status |-> "raise", exc |-> "ValidationError", obj |-> {},
              warned |-> <<>>]
        ELSE IF ~check_year_range(self)
        THEN [status |-> "raise", exc |-> "ValidationError", obj |-> {},
              warned |-> <<>>]
        ELSE [status |-> "ok", exc |-> "none", obj |-> {self},
              warned |-> <<>>]

\* the arguments FallEnrollmentQueryFilters is tried on
FallYearInputs ==
    {SPRING_SURVEYS_START_YEAR - 1, SPRING_SURVEYS_START_YEAR, 2000,
     SPRING_SURVEYS_END_YEAR, SPRING_SURVEYS_END_YEAR + 1}

FallYearArgs == {NotGiven(0)} \cup {Given(y) : y \in FallYearInputs}

GeoArgs ==
    {NotGiven(List(<<>>)), Given(Scalar(Str("AL"))),
     Given(List(<<Member("AK"), Str("AL")>>)), Given(Scalar(Str("ZZ")))}

FallFilterArgs ==
    [start_year : FallYearArgs, end_year : FallYearArgs, geos : GeoArgs]

\* a caller constructs FallEnrollmentQueryFilters from the arguments
NewFallEnrollmentQueryFilters ==
    /\ filters.status = "none"
    /\ filters.args \in FallFilterArgs
    /\ LET r == FallEnrollmentQueryFilters(filters.args)
       IN  /\ filters' = Constructed("FallEnrollmentQueryFilters",
                                     filters.args, r)
           /\ warnings' = r.warned
    /\ UNCHANGED <<rollup, table, last>>

InitFallEnrollment ==
    /\ filters \in [cls : {"none"}, args : FallFilterArgs, status : {"none"},
                    exc : {"none"}, obj : {{}}]
    /\ rollup = NoRollup
    /\ warnings = <<>>
    /\ table = {}
    /\ last = NoCall

NextFallEnrollment == NewFallEnrollmentQueryFilters

SpecFallEnrollment == InitFallEnrollment /\ [][NextFallEnrollment]_vars

(***************************************************************************)
(* Properties of the filters constructions.                                *)
(***************************************************************************)
\* the value a construction was asked for: the argument, or the default
ReqStartYear == IF filters.args.start_year.given
                THEN filters.args.start_year.v ELSE START_YEAR

ReqEndYear == IF filters.args.end_year.given
              THEN filters.args.end_year.v ELSE END_YEAR

\* e names a category of the closed enumeration cls
IsCategory(cls, e) ==
    \/ e.tag = "member" /\ e.text \in DOMAIN cls
    \/ e.tag = "str" /\ e.text \in {cls[m] : m \in DOMAIN cls}

\* the arguments break one of the documented input constraints
BadFilterArgs ==
    \/ ReqStartYear < START_YEAR
    \/ ReqStartYear > ReqEndYear
    \/ ReqEndYear > END_YEAR
    \/ /\ filters.args.majornums.given
       /\ \E i \in DOMAIN filters.args.majornums.v.elems :
             filters.args.majornums.v.elems[i] \notin {1, 2}
    \/ /\ filters.args.race_ethns.given
       /\ \E i \in DOMAIN filters.args.race_ethns.v.elems :
             ~IsCategory(RaceEthn, filters.args.race_ethns.v.elems[i])
    \/ /\ filters.args.award_levels.given
       /\ \E i \in DOMAIN filters.args.award_levels.v.elems :
             ~IsCategory(AwardLevel, filters.args.award_levels.v.elems[i])

\* C6: a filters construction succeeds only if the years satisfy
\* START_YEAR <= start_year <= end_year <= END_YEAR, every majornums value
\* is 1 or 2 and every race_ethns and award_levels value is a member of its
\* enumeration; when the arguments break one of these the construction
\* raises a validation error and produces no filters object.
C6_ValidationGuards ==
    /\ filters.status = "ok" =>
          /\ Cardinality(filters.obj) = 1
          /\ \A o \in filters.obj :
                /\ START_YEAR <= o.start_year
                /\ o.start_year <= o.end_year
                /\ o.end_year <= END_YEAR
                /\ \A i \in DOMAIN o.majornums : o.majornums[i] \in {1, 2}
                /\ \A i \in DOMAIN o.race_ethns :
                      o.race_ethns[i] \in DOMAIN RaceEthn
                /\ \A i \in DOMAIN o.award_levels :
                      o.award_levels[i] \in DOMAIN AwardLevel
    /\ (filters.status # "none" /\ BadFilterArgs) =>
          /\ filters.status = "raise"
          /\ filters.exc = "ValidationError"
          /\ filters.obj = {}

\* a construction was rejected for its year window alone (start after end)
C6_Witness ==
    /\ filters.status = "raise"
    /\ ReqStartYear > ReqEndYear
    /\ ReqStartYear <= END_YEAR
    /\ ReqEndYear >= START_YEAR
    /\ ~filters.args.majornums.given
    /\ ~filters.args.race_ethns.given
    /\ ~filters.args.award_levels.given

\* the member an element denotes
MemberOf(cls, e) ==
    IF e.tag = "member" THEN e.text
    ELSE CHOOSE m \in DOMAIN cls : cls[m] = e.text

\* the arguments with every singleton put inside a list
Listed(args) ==
    [args EXCEPT
        !.race_ethns = IF @.given /\ @.v.shape = "scalar"
                       THEN Given(List(@.v.elems)) ELSE @,
        !.award_levels = IF @.given /\ @.v.shape = "scalar"
                         THEN Given(List(@.v.elems)) ELSE @,
        !.majornums = IF @.given /\ @.v.shape = "scalar"
                      THEN Given(List(@.v.elems)) ELSE @]

HasSingleton(args) ==
    \/ args.race_ethns.given /\ args.race_ethns.v.shape = "scalar"
    \/ args.award_levels.given /\ args.award_levels.v.shape = "scalar"
    \/ args.majornums.given /\ args.majornums.v.shape = "scalar"

\* C7: a singleton race_ethns, award_levels or majornums argument (one
\* member, one valid string, one int) is stored as the one-element list
\* holding that value, and the construction gives what the same value
\* passed inside a list gives.
C7_SingletonCoercion ==
    (filters.status # "none" /\ HasSingleton(filters.args)) =>
        LET listed == CompletionsQueryFilters(Listed(filters.args))
        IN  /\ filters.status = listed.status
            /\ filters.obj = listed.obj
            /\ \A o \in filters.obj :
                  /\ (filters.args.race_ethns.given
                      /\ filters.args.race_ethns.v.shape = "scalar") =>
                        o.race_ethns =
                          <<MemberOf(RaceEthn, filters.args.race_ethns.v.elems[1])>>
                  /\ (filters.args.award_levels.given
                      /\ filters.args.award_levels.v.shape = "scalar") =>
                        o.award_levels =
                          <<MemberOf(AwardLevel, filters.args.award_levels.v.elems[1])>>
                  /\ (filters.args.majornums.given
                      /\ filters.args.majornums.v.shape = "scalar") =>
                        o.majornums = <<filters.args.majornums.v.elems[1]>>

\* a construction from three singletons (a valid string, a member, an int)
\* has succeeded
C7_Witness ==
    /\ filters.status = "ok"
    /\ filters.args.race_ethns = Given(Scalar(Str("Asian")))
    /\ filters.args.award_levels = Given(Scalar(Member("bachelors")))
    /\ filters.args.majornums = Given(Scalar(2))
    /\ \A o \in filters.obj :
          /\ o.race_ethns = <<"asian">>
          /\ o.award_levels = <<"bachelors">>
          /\ o.majornums = <<2>>

SchemaBreakWarned ==
    \E i \in DOMAIN warnings :
        warnings[i] = UserWarning("coding changed between 2010 and 2011")

\* C8: a completions filters construction emits the schema-break warning
\* exactly when its year window spans the 2010/2011 coding change
\* (start_year <= 2010 and end_year >= 2011), and the warning is not fatal:
\* the construction that warned has succeeded and holds the requested years.
\* (A construction that validation rejects emits no warning of this kind.)
C8_SchemaBreakWarning ==
    /\ filters.status = "ok" =>
          \A o \in filters.obj :
             /\ SchemaBreakWarned <=> (o.start_year <= 2010 /\ o.end_year >= 2011)
             /\ o.start_year = ReqStartYear
             /\ o.end_year = ReqEndYear
    /\ (filters.status # "none" /\ SchemaBreakWarned) =>
          /\ filters.status = "ok"
          /\ filters.obj # {}
          /\ ReqStartYear <= 2010
          /\ ReqEndYear >= 2011

\* the window 2010..2011 was requested, the warning was emitted and the
\* filters object was returned
C8_Witness ==
    /\ filters.status = "ok"
    /\ filters.args.start_year = Given(2010)
    /\ filters.args.end_year = Given(2011)
    /\ SchemaBreakWarned
    /\ \E o \in filters.obj : o.start_year = 2010 /\ o.end_year = 2011

(***************************************************************************)
(* Properties of the TaxonomyRollup construction.                          *)
(***************************************************************************)
\* C9: for every input the constructor accepts, taxonomy_values of the
\* rollup is the list of exactly the input's elements: a scalar gives the
\* one-element list, a list, a tuple or an array-like of n values gives the
\* list of those n values.
C9_UniformCoercion ==
    rollup.status = "ok" =>
        \A o \in rollup.obj :
            o.taxonomy_values = Items(rollup.args.taxonomy_values.elems)

(***************************************************************************)
(* Properties of the query operations.  The reference sets are taken from  *)
(* the arguments of the call and the fact table, not from the statement.   *)
(***************************************************************************)
IsRollupOp == last.op \in {"rollup_by_grouping", "uni_rollup_by_grouping"}

IsFieldOp ==
    last.op \in {"field_totals_by_grouping", "uni_field_totals_by_grouping"}

IsUniOp ==
    last.op \in {"uni_rollup_by_grouping", "uni_field_totals_by_grouping"}

\* an operation was called with a valid grouping and a valid taxonomy
ValidCall ==
    /\ last.op # "none"
    /\ IsCategory(Grouping, last.args.grouping)
    /\ IsFieldOp => IsCategory(FieldTaxonomy, last.args.taxonomy)

\* the taxonomy column of the call
RefTaxonomy ==
    IF IsRollupOp THEN FieldTaxonomy[last.args.rollup.taxonomy_name]
    ELSE FieldTaxonomy[MemberOf(FieldTaxonomy, last.args.taxonomy)]

\* the taxonomy values the call restricts the field of interest to
RefTaxonomyValues ==
    IF IsRollupOp
    THEN {last.args.rollup.taxonomy_values[i].elems[1] :
            i \in DOMAIN last.args.rollup.taxonomy_values}
    ELSE Range(last.args.taxonomy_values.v)

RefRestricted ==
    IsRollupOp \/ (last.args.taxonomy_values.given
                   /\ last.args.taxonomy_values.v # <<>>)

\* the fact rows that pass the filters of the call
RefFiltered ==
    {r \in table :
        /\ last.args.query_filters.start_year <= r.year
        /\ r.year <= last.args.query_filters.end_year
        /\ \E i \in DOMAIN last.args.query_filters.race_ethns :
              RaceEthn[last.args.query_filters.race_ethns[i]] = r.race_ethnicity
        /\ \E i \in DOMAIN last.args.query_filters.award_levels :
              AwardLevel[last.args.query_filters.award_levels[i]] = r.awlevel
        /\ \E i \in DOMAIN last.args.query_filters.majornums :
              last.args.query_filters.majornums[i] = r.majornum
        /\ (last.args.filter_unitids.given /\ last.args.filter_unitids.v # <<>>)
              => \E i \in DOMAIN last.args.filter_unitids.v :
                    last.args.filter_unitids.v[i] = r.unitid}

\* the filtered rows inside the taxonomy subset
RefInTaxonomy ==
    {r \in RefFiltered :
        RefRestricted => CipInfo[r.cip2020][RefTaxonomy] \in RefTaxonomyValues}

RefStrata ==
    LET g == MemberOf(Grouping, last.args.grouping)
    IN  IF g = "gender" THEN <<"gender">>
        ELSE IF g = "race_ethnicity" THEN <<"race_ethnicity">>
        ELSE <<"race_ethnicity", "gender">>

RefUnitid == IF IsUniOp THEN <<"unitid">> ELSE <<>>

RefField == IF IsFieldOp THEN <<RefTaxonomy>> ELSE <<>>

RefYear == IF last.args.by_year THEN <<"year">> ELSE <<>>

RefFieldGroupCols == RefUnitid \o RefField \o RefStrata \o RefYear

RefFieldTotalCols == RefUnitid \o RefField \o RefYear

RefGroupTotalCols == RefUnitid \o RefStrata \o RefYear

RefTotalCols == RefUnitid \o RefYear

\* the part of a key on the columns cols
Restrict(key, cols) == [c \in Range(cols) |-> key[c]]

\* zero-fill completeness of a frame
ZeroFillOn(df) ==
    \A fk \in {KeyOn(r, RefFieldTotalCols) : r \in RefInTaxonomy} :
      \A gk \in {KeyOn(r, RefGroupTotalCols) : r \in RefFiltered} :
        (\A c \in Range(RefTotalCols) : fk[c] = gk[c]) =>
            LET m == {x \in df : /\ x.field_total_key = fk
                                 /\ x.group_total_key = gk}
            IN  /\ Cardinality(m) = 1
                /\ Cardinality({x \in df :
                      x.key = [c \in Range(RefFieldGroupCols) |->
                                 IF c \in DOMAIN fk THEN fk[c] ELSE gk[c]]}) = 1
                /\ \A x \in m :
                      x.kind_degrees_label =
                        SumAwards({r \in RefInTaxonomy :
                                     /\ KeyOn(r, RefFieldTotalCols) = fk
                                     /\ KeyOn(r, RefGroupTotalCols) = gk})

\* the four counts of every row of a frame equal the reference sums
CountsOn(df) ==
    \A x \in df :
        /\ DOMAIN x.key = Range(RefFieldGroupCols)
        /\ x.kind_degrees_label =
              SumAwards({r \in RefInTaxonomy :
                           KeyOn(r, RefFieldGroupCols) = x.key})
        /\ x.kind_degrees_total =
              SumAwards({r \in RefInTaxonomy :
                           KeyOn(r, RefFieldTotalCols)
                             = Restrict(x.key, RefFieldTotalCols)})
        /\ x.uni_degrees_label =
              SumAwards({r \in RefFiltered :
                           KeyOn(r, RefGroupTotalCols)
                             = Restrict(x.key, RefGroupTotalCols)})
        /\ x.uni_degrees_total =
              SumAwards({r \in RefFiltered :
                           KeyOn(r, RefTotalCols)
                             = Restrict(x.key, RefTotalCols)})

\* every denominator of a frame includes its numerator
DenominatorsOn(df) ==
    \A x \in df :
        /\ 0 <= x.kind_degrees_label
        /\ x.kind_degrees_label <= x.kind_degrees_total
        /\ 0 <= x.uni_degrees_label
        /\ x.uni_degrees_label <= x.uni_degrees_total

\* what the store answers to the statement the last call formatted
StatementRows ==
    UNION {GroupFieldsRows(q, prm, table) :
             q \in last.query, prm \in last.params}

StatementFormatted == last.op # "none" /\ last.query # {}

RECURSIVE SumLabel(_)
\* the sum of the field-by-group count over a set of result rows
SumLabel(rows) ==
    IF rows = {} THEN 0
    ELSE LET x == CHOOSE y \in rows : TRUE
         IN  x.kind_degrees_label + SumLabel(rows \ {x})

\* field_totals_by_grouping was called with grouping=intersectional
CallIntersectional ==
    /\ last.op = "field_totals_by_grouping"
    /\ ValidCall
    /\ MemberOf(Grouping, last.args.grouping) = "intersectional"

\* the same call with grouping=race_ethnicity
WithinRaceCall ==
    field_totals_by_grouping(
        [last.args EXCEPT !.grouping = Member("race_ethnicity")], table)

\* the key columns of a row of the race_ethnicity grouping
WithinRaceCols == RefField \o <<"race_ethnicity">> \o RefYear

\* the intersectional counts summed over the genders equal the count within
\* race and ethnicity, for every field value and race of either frame
ConservationOn(inter, within) ==
    /\ \A y \in within :
          SumLabel({x \in inter : Restrict(x.key, WithinRaceCols) = y.key})
            = y.kind_degrees_label
    /\ \A x \in inter :
          \E y \in within : Restrict(x.key, WithinRaceCols) = y.key

\* the requested taxonomy values the store does not hold
MissingRequested ==
    IF RefRestricted
    THEN {v \in RefTaxonomyValues : v \notin DistinctValues(RefTaxonomy, table)}
    ELSE {}

\* the warnings of the call about missing taxonomy values
MissingWarnings ==
    {i \in DOMAIN warnings :
        warnings[i].text = "provided taxonomy values were missing from taxonomy"}

\* The statement each operation formats, evaluated on the store, has the
\* properties below (the operation itself hands the statement to
\* get_df_from_query).
StatementZeroFill ==
    (ValidCall /\ StatementFormatted) => ZeroFillOn(StatementRows)

StatementCounts ==
    (ValidCall /\ StatementFormatted) => CountsOn(StatementRows)

StatementDenominators ==
    (ValidCall /\ StatementFormatted) => DenominatorsOn(StatementRows)

StatementEmpty ==
    (ValidCall /\ StatementFormatted /\ RefFiltered = {}) => StatementRows = {}

StatementConservation ==
    CallIntersectional =>
        ConservationOn(
            StatementRows,
            UNION {GroupFieldsRows(q, prm, table) :
                     q \in WithinRaceCall.query, prm \in WithinRaceCall.params})

\* the rollup operations warn about missing values before they execute the
\* statement; the field-totals operations never warn
RollupCheckWarns ==
    (ValidCall /\ IsRollupOp) =>
        IF MissingRequested = {} THEN MissingWarnings = {}
        ELSE /\ Cardinality(MissingWarnings) = 1
             /\ \A i \in MissingWarnings :
                   /\ warnings[i].named # <<>>
                   /\ Len(warnings[i].named) <= 3
                   /\ Range(warnings[i].named) \subseteq MissingRequested

FieldTotalsNeverWarn == (ValidCall /\ IsFieldOp) => MissingWarnings = {}

\* every call on valid arguments ends in the TypeError of get_df_from_query
EveryCallRaises ==
    ValidCall => /\ last.status = "raise"
                 /\ last.exc = "TypeError"
                 /\ last.df = {}

\* C1: zero-fill completeness: for each of the four query operations, any
\* grouping and by_year setting and any fact table, the call returns a result
\* in which every combination of a field-total key and a group-total key
\* present in the filtered data (agreeing on the total-level columns) appears
\* exactly once, the field-by-group count being 0 when no fact row exists.
C1_ZeroFillCompleteness ==
    ValidCall => /\ last.status = "ok"
                 /\ ZeroFillOn(last.df)

\* C2: count correctness: the call returns a result in every row of which
\* the four counts equal the reference sums of n_awards over the filtered
\* rows (inside the taxonomy subset for the two field counts) that match the
\* row's field-group, field-total, group-total and total key.
C2_CountCorrectness ==
    ValidCall => /\ last.exc = "none"
                 /\ CountsOn(last.df)

\* C3: conservation across strata: for the same taxonomy, filters and
\* by_year, field_totals_by_grouping(intersectional) and
\* field_totals_by_grouping(race_ethnicity) return results in which the
\* intersectional count summed over the genders equals the count within
\* race and ethnicity, for every field value and race.
C3_ConservationAcrossStrata ==
    CallIntersectional =>
        /\ last.status = "ok"
        /\ WithinRaceCall.status = "ok"
        /\ ConservationOn(last.df, WithinRaceCall.df)

\* C4: the call returns a result in every row of which the four counts are
\* non-negative and each numerator is at most its denominator.
C4_DenominatorsIncludeNumerators ==
    ValidCall => /\ last.status # "raise"
                 /\ DenominatorsOn(last.df)

\* C5: a filter combination that matches zero fact rows is not an error: the
\* call completes normally and returns a result with zero rows.
C5_EmptyFilterNoError ==
    (ValidCall /\ RefFiltered = {}) =>
        /\ last.status = "ok"
        /\ last.exc = "none"
        /\ last.df = {}

\* C10: in each of the four operations, when a requested taxonomy value is
\* absent from the store the call does not fail: it emits one warning naming
\* at most 3 of the missing values, executes the aggregation statement and
\* returns its result; when no requested value is missing it emits no such
\* warning.
C10_MissingValueWarning ==
    ValidCall =>
        IF MissingRequested = {} THEN MissingWarnings = {}
        ELSE /\ last.status = "ok"
             /\ Cardinality(MissingWarnings) = 1
             /\ \A i \in MissingWarnings :
                   /\ warnings[i].named # <<>>
                   /\ Len(warnings[i].named) <= 3
                   /\ Range(warnings[i].named) \subseteq MissingRequested
             /\ last.df = StatementRows

(***************************************************************************)
(* Properties of the transforms (scipeds/utils.py).  Values are exact      *)
(* rationals and the IEEE special values, so an equality below is the      *)
(* equality of the real numbers the code computes; in doubles the same     *)
(* identities hold up to rounding, which is what test_transforms.py        *)
(* asserts with assert_array_almost_equal.                                 *)
(***************************************************************************)
Applied(ops) == last.op = "transforms" /\ last.ops = ops

Positive(x) == Lt(Num(0), x)

NonNegative(x) == Le(Num(0), x)

FoldRoundTrip == <<"forward_fold_transform", "inverse_fold_transform">>

BoundedRoundTrip == <<"bounded_ratio_transform", "inverse_bounded_ratio_transform">>

BoundedImage(x, y) ==
    /\ Le(Num(-1), y) /\ Le(y, Num(1))
    /\ x = Num(1) => y = Num(0)
    /\ x = Num(0) => y = Num(-1)
    /\ Lt(x, Num(1)) => Lt(y, Num(0))
    /\ Lt(Num(1), x) => Lt(Num(0), y)

RelRateApplied ==
    last.op = "stats" /\ last.steps # <<>> /\ last.steps[1] = "calculate_rel_rate"

EffectSizeApplied ==
    /\ last.op = "stats" /\ last.status = "ok"
    /\ last.steps = <<"calculate_rel_rate", "calculate_effect_size">>

\* the subgroup rate and the baseline rate of the row are the same number
AtParity(row) == Eq(row[last.rate.name], row[uni_pct.name])

ParityOf(row) ==
    /\ row.rel_rate = Num(1)
    /\ row.fold_rel_rate = Num(0)
    /\ row.bounded_rel_rate = Num(0)
    /\ EffectSizeApplied => row.excess_degrees_from_parity = Num(0)

\* when the two equal rates are not 0, the row is at parity in every column
ParityOfNonZeroRates ==
    RelRateApplied =>
        \A row \in last.df :
            (AtParity(row) /\ row[uni_pct.name] # Num(0)) => ParityOf(row)

\* excess_degrees_from_parity is 0 whenever the two rates are equal
ParityExcessIsZero ==
    EffectSizeApplied =>
        \A row \in last.df :
            AtParity(row) => row.excess_degrees_from_parity = Num(0)

\* C14: Parity property.  In every row whose subgroup rate equals its
\* baseline rate, calculate_rel_rate gives rel_rate = 1, fold_rel_rate = 0 and
\* bounded_rel_rate = 0, and calculate_effect_size gives
\* excess_degrees_from_parity = 0.
C14_ParityProperty ==
    RelRateApplied => \A row \in last.df : AtParity(row) => ParityOf(row)

\* C15: Monotonic clipping.  In every row calculate_effect_size produces,
\* median_rel_rate_expected_degrees is at most the row's field (or rollup)
\* total, whatever the median relative rate of the row's group is.
C15_MonotonicClipping ==
    EffectSizeApplied =>
        \A row \in last.df :
            Le(row.median_rel_rate_expected_degrees, Num(row[last.rate.denominator]))

\* a row whose unclipped expectation, total * uni_pct * median, exceeds its
\* total, and which holds the total instead
C15_Witness ==
    /\ EffectSizeApplied
    /\ \E row \in last.df :
          /\ Lt(Num(row[last.rate.denominator]),
                Mul(Mul(Num(row[last.rate.denominator]), row[uni_pct.name]),
                    row.median_rel_rate_uni))
          /\ row.median_rel_rate_expected_degrees = Num(row[last.rate.denominator])

\* the baseline rate of a row is a number other than 0
NonZeroBaseline(row) ==
    LET rate == Div(Num(row.uni_degrees_label), Num(row.uni_degrees_total))
    IN  ~IsNaN(rate) /\ rate # Num(0)

\* over a table without zero-award rows no row of the statement has a zero
\* baseline rate
StatementBaselineOfPositiveAwards ==
    (ValidCall /\ StatementFormatted /\ \A r \in table : r.n_awards > 0) =>
        \A row \in StatementRows : NonZeroBaseline(row)

\* C16: for every row of every query result over a fact table with unique
\* keys and n_awards >= 0, the baseline rate
\* uni_degrees_{label} / uni_degrees_total that divides rel_rate is non-zero.
C16_NonZeroBaseline ==
    (ValidCall /\ StatementFormatted) =>
        \A row \in StatementRows : NonZeroBaseline(row)

\* a statistics function returned: the frame it was given is the frame the
\* caller still holds, and each row it was given is in the result with the
\* same value in every column it had
StatsColumnsAppended ==
    (last.op = "stats" /\ last.steps # <<>> /\ last.status = "ok") =>
        /\ last.arg = last.given
        /\ Cardinality(last.df) = Cardinality(last.given)
        /\ \A row \in last.given :
              \E out \in last.df :
                  /\ DOMAIN row \subseteq DOMAIN out
                  /\ \A c \in DOMAIN row : out[c] = row[c]

\* C17: statistical columns are only appended: calculate_rel_rate and
\* calculate_effect_size leave the frame they are given unchanged and keep
\* every column it had; a query operation called with rel_rate and effect_size
\* both false returns the rows of the statement, with the raw count columns
\* only.
C17_ColumnsOnlyAppended ==
    /\ StatsColumnsAppended
    /\ (ValidCall /\ ~last.args.rel_rate /\ ~last.args.effect_size) =>
          /\ last.status = "ok"
          /\ last.df = StatementRows

(***************************************************************************)
(* Properties of get_df_from_query (scipeds/data/engine.py).               *)
(***************************************************************************)
BetweenCalls ==
    last.op = "get_df_from_query" /\ last.pc \in {"idle", "returned", "raised"}

\* the statement of the call failed when it was executed
ExecutionFailed ==
    /\ last.op = "get_df_from_query"
    /\ last.pc = "raised"
    /\ last.attempts > 0

\* C18: Scoped connection with no retry.  Once get_df_from_query has returned
\* or raised, the connection it opened is closed; and when the execution of
\* the statement failed, the caller gets the error of that execution after
\* exactly one attempt.
C18_ScopedConnectionNoRetry ==
    /\ BetweenCalls => last.open = 0
    /\ last.op = "get_df_from_query" => last.attempts <= 1
    /\ ExecutionFailed =>
          /\ last.attempts = 1
          /\ last.exc = last.call.statement
          /\ last.exc # "none"

\* a second call whose statement failed, after a first call that opened a
\* connection
C18_Witness ==
    /\ ExecutionFailed
    /\ last.calls = 2
    /\ last.opened = 2
    /\ last.open = 0
    /\ last.exc = "ParserException"

(***************************************************************************)
(* Properties of the connections of the query operations.                  *)
(***************************************************************************)
\* what each operation does to the store before it raises: a rollup
\* operation opens one connection for the SELECT DISTINCT of
\* _check_rollup_values and never executes the aggregation; a field-totals
\* operation opens none
ConnectionsPerCall ==
    ValidCall =>
        /\ last.status = "raise"
        /\ IsRollupOp => last.opened = 1 /\ last.executed = 1
        /\ IsFieldOp => last.opened = 0 /\ last.executed = 0

\* C19: each call of one of the four query operations opens exactly one
\* connection to the store and executes exactly one compiled statement on it
\* before returning.
C19_OneConnectionOneStatement ==
    ValidCall =>
        /\ last.status = "ok"
        /\ last.opened = 1
        /\ last.executed = 1

(***************************************************************************)
(* Properties of a constructed filters object (scipeds/data/queries.py).   *)
(***************************************************************************)
\* the constraints the construction validated
ValidatedConstraints(o) ==
    /\ START_YEAR <= o.start_year
    /\ o.start_year <= o.end_year
    /\ o.end_year <= END_YEAR
    /\ \A i \in DOMAIN o.majornums : o.majornums[i] \in {1, 2}
    /\ \A i \in DOMAIN o.race_ethns : o.race_ethns[i] \in DOMAIN RaceEthn
    /\ \A i \in DOMAIN o.award_levels : o.award_levels[i] \in DOMAIN AwardLevel

\* an assignment to a name that is no field raises and changes nothing
UnknownAttributeRefused ==
    [][(last.op = "setattr" /\ last'.status = "raise") =>
          (last'.exc = "ValueError" /\ filters' = filters)]_vars

\* C20: a filters object is immutable once constructed: no attribute
\* assignment by the caller changes any of its fields, and the validated
\* constraints hold for its whole lifetime.
C20_FiltersImmutable ==
    last.op = "setattr" =>
        \A o \in filters.obj :
            /\ o = last.constructed
            /\ ValidatedConstraints(o)

(***************************************************************************)
(* Properties of the contract of the query operations.                     *)
(***************************************************************************)
\* the index the operation sets on the frame it returns
RefIndex ==
    (IF IsUniOp THEN <<"institution_name">> ELSE <<>>) \o RefFieldGroupCols

\* C21: each of the four query operations, called with a valid grouping, a
\* valid rollup or taxonomy and valid filters (show_query at its default),
\* hands its statement and parameters to get_df_from_query and returns a
\* frame indexed by its field-group columns, institution_name first for the
\* university operations; it does not raise.
C21_ValidCallReturnsFrame ==
    ValidCall => /\ last.exc = "none"
                 /\ last.status = "ok"
                 /\ last.index = RefIndex

(***************************************************************************)
(* Properties of the columns of the derived statistics.                    *)
(***************************************************************************)
\* calculate_rel_rate alone was applied to the frame
OnlyRelRateApplied ==
    last.op = "stats" /\ last.steps = <<"calculate_rel_rate">>

\* numerator - baseline_rate * denominator of a row
ExcessFromParity(row) ==
    Sub(Num(row[last.rate.numerator]),
        Mul(row[uni_pct.name], Num(row[last.rate.denominator])))

\* the columns calculate_rel_rate adds are the two rates and the four
\* relative rates, and no other
RelRateColumns ==
    OnlyRelRateApplied =>
        Columns(last.df) =
            Columns(last.given) \cup
            {last.rate.name, uni_pct.name, "rel_rate", "log2_rel_rate",
             "fold_rel_rate", "bounded_rel_rate"}

\* excess_degrees_from_parity is a column of calculate_effect_size
ExcessFromParityOfEffectSize ==
    EffectSizeApplied =>
        \A row \in last.df :
            row.excess_degrees_from_parity = ExcessFromParity(row)

\* C22: the frame calculate_rel_rate returns contains, besides rel_rate,
\* log2_rel_rate and fold_rel_rate, a column excess_degrees_from_parity whose
\* value in each row is numerator - baseline_rate * denominator.
C22_RelRateHasExcessFromParity ==
    OnlyRelRateApplied =>
        \A row \in last.df :
            /\ {"rel_rate", "log2_rel_rate", "fold_rel_rate",
                "excess_degrees_from_parity"} \subseteq DOMAIN row
            /\ row.excess_degrees_from_parity = ExcessFromParity(row)

(***************************************************************************)
(* Properties of the order of validation and execution.                    *)
(***************************************************************************)
\* the operation was given a grouping or a taxonomy name that is no member
InvalidCall ==
    /\ last.op # "none"
    /\ \/ ~IsCategory(Grouping, last.args.grouping)
       \/ IsFieldOp /\ ~IsCategory(FieldTaxonomy, last.args.taxonomy)

\* a constructor of the caller's sequence raised
ConstructionFailed == filters.status = "raise" \/ rollup.status = "raise"

AllowListGiven == ValidCall /\ last.args.filter_unitids.given

\* the filtered rows whose unitid is in the list the call was given
RefAllowed ==
    {r \in RefFiltered :
        \E i \in DOMAIN last.args.filter_unitids.v :
            last.args.filter_unitids.v[i] = r.unitid}

RefAllowedInTaxonomy == RefAllowed \cap RefInTaxonomy

\* each of the four counts of every row sums rows of the allow-list only
AllowListOn(df) ==
    \A x \in df :
        /\ x.kind_degrees_label =
              SumAwards({r \in RefAllowedInTaxonomy :
                           KeyOn(r, RefFieldGroupCols) = x.key})
        /\ x.kind_degrees_total =
              SumAwards({r \in RefAllowedInTaxonomy :
                           KeyOn(r, RefFieldTotalCols)
                             = Restrict(x.key, RefFieldTotalCols)})
        /\ x.uni_degrees_label =
              SumAwards({r \in RefAllowed :
                           KeyOn(r, RefGroupTotalCols)
                             = Restrict(x.key, RefGroupTotalCols)})
        /\ x.uni_degrees_total =
              SumAwards({r \in RefAllowed :
                           KeyOn(r, RefTotalCols)
                             = Restrict(x.key, RefTotalCols)})

\* a list that is not empty restricts every tier of the statement
StatementAllowListNonEmpty ==
    (AllowListGiven /\ StatementFormatted
       /\ last.args.filter_unitids.v # <<>>) => AllowListOn(StatementRows)

\* an empty list restricts nothing: the statement is the one of the call
\* without a list
StatementAllowListEmpty ==
    (AllowListGiven /\ StatementFormatted
       /\ last.args.filter_unitids.v = <<>>) =>
        \A q \in last.query : ~q.unitid_filter.where

\* C24: whenever a list of unitids is given to a query operation, the empty
\* list included, only fact rows whose unitid is in the list contribute to
\* any of the four counts of the rows the statement of the call yields.
C24_AllowListRestrictsEveryTier ==
    (AllowListGiven /\ StatementFormatted) => AllowListOn(StatementRows)

(***************************************************************************)
(* Properties relating the rollup shape to the field shape.                *)
(***************************************************************************)
\* a rollup operation was called with a rollup of one value that occurs in
\* the filtered rows
SingleValueRollupCall ==
    /\ ValidCall
    /\ IsRollupOp
    /\ Len(last.args.rollup.taxonomy_values) = 1
    /\ \E r \in RefFiltered : CipInfo[r.cip2020][RefTaxonomy] \in RefTaxonomyValues

\* the field-totals operation of the same scope, called with the taxonomy of
\* the rollup and the same grouping, filters, by_year and allow-list
FieldShapeCall ==
    LET a == [last.args EXCEPT
                !.rollup = NoRollupObject,
                !.taxonomy = Member(last.args.rollup.taxonomy_name),
                !.effect_size = IF IsUniOp THEN @ ELSE FALSE]
    IN  IF IsUniOp THEN uni_field_totals_by_grouping(a, table)
        ELSE field_totals_by_grouping(a, table)

\* the rows of a frame of the rollup shape: the key and the four counts
RollupShape(df) ==
    {[key |-> x.key,
      label |-> x.kind_degrees_label, total |-> x.kind_degrees_total,
      uni_label |-> x.uni_degrees_label, uni_total |-> x.uni_degrees_total] :
        x \in df}

\* the rows of a frame of the field shape whose field is the value of the
\* rollup, without the field column
FieldShape(df) ==
    {[key |-> Restrict(x.key, RefFieldGroupCols),
      label |-> x.kind_degrees_label, total |-> x.kind_degrees_total,
      uni_label |-> x.uni_degrees_label, uni_total |-> x.uni_degrees_total] :
        x \in {y \in df : y.key[RefTaxonomy] \in RefTaxonomyValues}}

\* the statements of the two shapes yield the same rows for the value
StatementShapesAgree ==
    SingleValueRollupCall =>
        RollupShape(StatementRows) =
            FieldShape(UNION {GroupFieldsRows(q, prm, table) :
                                q \in FieldShapeCall.query,
                                prm \in FieldShapeCall.params})

\* C25: for a single taxonomy value v that occurs in the filtered data and
\* the same grouping, filters, by_year and allow-list, rollup_by_grouping
\* with the rollup {v} and field_totals_by_grouping return the same rows for
\* v, same keys and same four counts; likewise uni_rollup_by_grouping and
\* uni_field_totals_by_grouping.
C25_RollupAndFieldShapesAgree ==
    SingleValueRollupCall =>
        /\ last.status = "ok"
        /\ FieldShapeCall.status = "ok"
        /\ RollupShape(last.df) = FieldShape(FieldShapeCall.df)

(***************************************************************************)
(* Properties of the median relative rate.                                 *)
(***************************************************************************)
\* the rows of the frame that share the row's values of group_cols
GroupOf(row) ==
    {r \in last.df : \A c \in Range(StatsGroupCols) : r.key[c] = row.key[c]}

\* the rel_rate values of a set of rows that are numbers
Rates(rows) == {r \in rows : ~IsNaN(r.rel_rate)}

\* v is a lower (upper) middle value of the rates of the rows: at least half
\* of them are at most (at least) v and more than half at least (at most) v
IsLowerMiddle(v, rows) ==
    /\ 2 * Cardinality({r \in Rates(rows) : Le(r.rel_rate, v)})
          >= Cardinality(Rates(rows))
    /\ 2 * Cardinality({r \in Rates(rows) : Ge(r.rel_rate, v)})
          > Cardinality(Rates(rows))

IsUpperMiddle(v, rows) ==
    /\ 2 * Cardinality({r \in Rates(rows) : Ge(r.rel_rate, v)})
          >= Cardinality(Rates(rows))
    /\ 2 * Cardinality({r \in Rates(rows) : Le(r.rel_rate, v)})
          > Cardinality(Rates(rows))

\* m is the median of the rates of the rows: nan when there is none, else the
\* mean of the lower and the upper middle value
IsMedianOf(m, rows) ==
    IF Rates(rows) = {} THEN IsNaN(m)
    ELSE \E lo, hi \in {r.rel_rate : r \in Rates(rows)} :
            /\ IsLowerMiddle(lo, rows)
            /\ IsUpperMiddle(hi, rows)
            /\ m = Div(Add(lo, hi), Num(2))

\* median_rel_rate_uni is the median of rel_rate across the row's group
MedianAcrossGroup ==
    EffectSizeApplied =>
        \A row \in last.df : IsMedianOf(row.median_rel_rate_uni, GroupOf(row))

\* denominator * baseline_rate * median
ExpectedAtMedian(row) ==
    Mul(Mul(Num(row[last.rate.denominator]), row[uni_pct.name]),
        row.median_rel_rate_uni)

\* excess_degrees_from_median_expected is the numerator less the smaller of
\* the expectation and the denominator (the denominator when the expectation
\* is nan)
ExcessFromMedianFormula ==
    EffectSizeApplied =>
        \A row \in last.df :
            row.excess_degrees_from_median_expected =
                Sub(Num(row[last.rate.numerator]),
                    IF Le(ExpectedAtMedian(row), Num(row[last.rate.denominator]))
                    THEN ExpectedAtMedian(row)
                    ELSE Num(row[last.rate.denominator]))

\* with a median of 1 the two excesses agree in the rows whose baseline rate
\* is a number
MedianOneOfDefinedBaseline ==
    EffectSizeApplied =>
        \A row \in last.df :
            (row.median_rel_rate_uni = Num(1) /\ ~IsNaN(row[uni_pct.name])) =>
                row.excess_degrees_from_median_expected
                    = row.excess_degrees_from_parity

\* C26: calculate_effect_size sets median_rel_rate_uni of each row to the
\* median of rel_rate over the rows sharing the row's group_cols values, and
\* excess_degrees_from_median_expected to numerator - min(denominator *
\* baseline_rate * median, denominator); when the median of a group is 1,
\* excess_degrees_from_median_expected equals excess_degrees_from_parity in
\* every row of the group.
C26_MedianEffectSize ==
    EffectSizeApplied =>
        \A row \in last.df :
            /\ IsMedianOf(row.median_rel_rate_uni, GroupOf(row))
            /\ row.median_rel_rate_uni = Num(1) =>
                  row.excess_degrees_from_median_expected
                      = row.excess_degrees_from_parity

(***************************************************************************)
(* Properties of the crosswalk (pipeline/cip_crosswalk.py).                *)
(***************************************************************************)
Converted == last.op = "crosswalk" /\ last.status # "none"

\* the crosswalk object of the call
TheCrosswalk == CHOOSE self \in last.self : TRUE

\* the stage of the year range is applied to the year of the call
StageApplies(year_range) == last.year <= year_range[2]

\* the stage's code map applied once, identity as default, when the stage
\* applies
RefStage(year_range, code) ==
    IF StageApplies(year_range)
          /\ code \in DOMAIN TheCrosswalk.crosswalk[year_range].cip_map
    THEN TheCrosswalk.crosswalk[year_range].cip_map[code]
    ELSE code

\* the composition of the stages in ascending order of their start year
RefCip2020(code) ==
    RefStage(<<2010, 2019>>,
        RefStage(<<2000, 2009>>,
            RefStage(<<1990, 1999>>,
                RefStage(<<1984, 1991>>, code))))

\* no stage applied to the year maps the code
NoStageMaps(code) ==
    \A yr \in Range(LoadOrder) :
        StageApplies(yr) =>
            code \notin DOMAIN TheCrosswalk.crosswalk[yr].cip_map

\* no stage applied to the year has a title for the code
NoStageTitles(code) ==
    \A yr \in Range(LoadOrder) :
        StageApplies(yr) =>
            code \notin DOMAIN TheCrosswalk.crosswalk[yr].title_map

\* the title of the latest stage applied to the year that has one for the
\* code
LatestTitle(code) ==
    LET having == {yr \in Range(LoadOrder) :
                     /\ StageApplies(yr)
                     /\ code \in DOMAIN TheCrosswalk.crosswalk[yr].title_map}
        yr == CHOOSE y \in having : \A z \in having : z[1] <= y[1]
    IN  TheCrosswalk.crosswalk[yr].title_map[code]

\* the call raises ValueError exactly for a year below the earliest start
\* year, and else converts each code by the composition of the stages
CodesComposed ==
    Converted =>
        /\ last.status = "raise" <=> last.year < 1984
        /\ last.status = "raise" => last.exc = "ValueError"
        /\ last.status = "ok" =>
              /\ DOMAIN last.df = DOMAIN last.codes
              /\ \A i \in DOMAIN last.codes :
                    last.df[i].cip2020 = RefCip2020(last.codes[i])

\* the claim as stated: a code that no applied stage maps is returned
\* unchanged together with its given title
C27_AsStated ==
    (Converted /\ last.status = "ok" /\ last.titles.given) =>
        \A i \in DOMAIN last.codes :
            NoStageMaps(last.codes[i]) =>
                /\ last.df[i].cip2020 = last.codes[i]
                /\ last.df[i].cip2020_title = last.titles.v.elems[i]

\* C27: convert_to_cip2020(year, code) is the composition, in ascending
\* order of start year, of exactly the stages whose end year is >= year, each
\* code map applied once with identity as default; a year below the earliest
\* start year raises ValueError; a 1991 code passes through the stage
\* 1984-1991; a code that no applied stage maps is returned unchanged, with
\* its given title when no applied stage has a title for it and else with
\* the title of the latest applied stage that has one.
C27_CrosswalkComposition ==
    /\ CodesComposed
    /\ (Converted /\ last.status = "ok" /\ last.titles.given) =>
          \A i \in DOMAIN last.codes :
              NoStageMaps(last.codes[i]) =>
                  /\ last.df[i].cip2020 = last.codes[i]
                  /\ last.df[i].cip2020_title =
                        IF NoStageTitles(last.codes[i])
                        THEN last.titles.v.elems[i]
                        ELSE LatestTitle(last.codes[i])

\* a 1991 call whose code the stage 1984-1991 maps and the stage 1990-1999
\* maps further, and in the same frame a code no stage maps that keeps its
\* given title
C27_Witness ==
    /\ Converted
    /\ last.status = "ok"
    /\ last.year = 1991
    /\ last.titles.given
    /\ \E i, j \in DOMAIN last.codes :
          /\ last.codes[i]
                \in DOMAIN TheCrosswalk.crosswalk[<<1984, 1991>>].cip_map
          /\ RefStage(<<1984, 1991>>, last.codes[i])
                \in DOMAIN TheCrosswalk.crosswalk[<<1990, 1999>>].cip_map
          /\ last.df[i].cip2020 # RefStage(<<1984, 1991>>, last.codes[i])
          /\ NoStageMaps(last.codes[j])
          /\ NoStageTitles(last.codes[j])
          /\ last.df[j].cip2020_title = GivenTitle(last.codes[j])

(***************************************************************************)
(* Properties of NCSESClassifier.classify.                                 *)
(***************************************************************************)
\* a call of classify whose two inputs have the same length
Classified ==
    /\ last.op = "classifier"
    /\ last.status # "none"
    /\ last.codes_2020.given
          => Len(last.codes_2020.v) = Len(last.original_codes)

TheClassifier == CHOOSE self \in last.self : TRUE

\* the code whose classification row i is to report: the original one when
\* it is classified, else the 2020 one when it is given and classified
ClassifiedAs(i) ==
    LET self == TheClassifier
    IN  IF last.original_codes[i] \in DOMAIN self.sg_map
        THEN {last.original_codes[i]}
        ELSE IF /\ last.codes_2020.given
                /\ last.codes_2020.v[i] \in DOMAIN self.sg_map
        THEN {last.codes_2020.v[i]}
        ELSE {}

\* the row the classification of code c gives, the fallbacks for no code
RefClassification(cs) ==
    LET self == TheClassifier
    IN  IF cs = {}
        THEN [ncses_sci_group |-> NCSESSciGroup.unknown,
              ncses_field_group |-> NCSESFieldGroup.unknown,
              ncses_detailed_field_group |-> NCSESDetailedFieldGroup.unknown,
              nsf_broad_field |-> NSFBroadField.non_stem]
        ELSE LET c == CHOOSE x \in cs : TRUE
             IN  [ncses_sci_group |-> self.sg_map[c],
                  ncses_field_group |-> self.fg_map[c],
                  ncses_detailed_field_group |-> self.dfg_map[c],
                  nsf_broad_field |->
                      IF self.fg_map[c] \in DOMAIN NSF_REPORT_BROAD_FIELD_MAP
                      THEN NSF_REPORT_BROAD_FIELD_MAP[self.fg_map[c]]
                      ELSE NSFBroadField.non_stem]

\* every call of classify with inputs of one length raises AttributeError
ClassifyRaises ==
    Classified => last.status = "raise" /\ last.exc = "AttributeError"

\* C28: classify returns, for every input code, a row none of whose
\* classification attributes is null: the attributes of the original code
\* when it is classified, else those of the 2020 code, else the unknown
\* sentinel for the three NCSES levels and "Non-science and engineering" as
\* NSF broad field.
C28_ClassifyNeverNull ==
    Classified =>
        /\ last.status = "ok"
        /\ DOMAIN last.df = DOMAIN last.original_codes
        /\ \A i \in DOMAIN last.df :
              LET row == last.df[i]
                  ref == RefClassification(ClassifiedAs(i))
              IN  /\ row.cipcode = last.original_codes[i]
                  /\ row.ncses_sci_group # NoValue
                  /\ row.ncses_field_group # NoValue
                  /\ row.ncses_detailed_field_group # NoValue
                  /\ row.nsf_broad_field # NoValue
                  /\ row.ncses_sci_group = ref.ncses_sci_group
                  /\ row.ncses_field_group = ref.ncses_field_group
                  /\ row.ncses_detailed_field_group =
                         ref.ncses_detailed_field_group
                  /\ row.nsf_broad_field = ref.nsf_broad_field

(***************************************************************************)
(* Properties of FallEnrollmentQueryFilters.                               *)
(***************************************************************************)
FallConstructed ==
    filters.cls = "FallEnrollmentQueryFilters" /\ filters.status = "ok"

\* a year that is given is inside the span of the spring surveys, and the
\* window is never reversed
FallGivenYearsInSpan ==
    FallConstructed =>
        \A self \in filters.obj :
            /\ self.start_year <= self.end_year
            /\ filters.args.start_year.given
                  => /\ self.start_year >= SPRING_SURVEYS_START_YEAR
                     /\ self.start_year <= SPRING_SURVEYS_END_YEAR
            /\ filters.args.end_year.given
                  => /\ self.end_year >= SPRING_SURVEYS_START_YEAR
                     /\ self.end_year <= SPRING_SURVEYS_END_YEAR

\* a year that is not given is the default of the class, START_YEAR or
\* END_YEAR, and the construction without years succeeds
FallDefaultYears ==
    /\ FallConstructed =>
          \A self \in filters.obj :
              /\ ~filters.args.start_year.given
                    => self.start_year = START_YEAR
              /\ ~filters.args.end_year.given => self.end_year = END_YEAR
    /\ /\ filters.cls = "FallEnrollmentQueryFilters"
       /\ ~filters.args.start_year.given
       /\ ~filters.args.end_year.given
       /\ ~filters.args.geos.given
       => filters.status = "ok"

\* C29: every constructed FallEnrollmentQueryFilters, the one built with no
\* arguments included, has
\* SPRING_SURVEYS_START_YEAR <= start_year <= end_year
\* <= SPRING_SURVEYS_END_YEAR.
C29_FallEnrollmentWindowInSpan ==
    FallConstructed =>
        \A self \in filters.obj :
            /\ SPRING_SURVEYS_START_YEAR <= self.start_year
            /\ self.start_year <= self.end_year
            /\ self.end_year <= SPRING_SURVEYS_END_YEAR

(***************************************************************************)
(* Properties of the rate denominators.                                    *)
(***************************************************************************)
\* both rate denominators of every row are strictly positive
PositiveDenominators(df) ==
    \A x \in df : x.kind_degrees_total > 0 /\ x.uni_degrees_total > 0

\* a rollup operation whose values match no filtered fact row
RollupMatchesNoRow == ValidCall /\ IsRollupOp /\ RefInTaxonomy = {}

\* over fact rows that all count at least one award, the denominators of a
\* row of the statement are positive unless no filtered row in the taxonomy
\* shares the row's field-total key
StatementDenominatorsOfPositiveAwards ==
    (ValidCall /\ StatementFormatted /\ \A r \in table : r.n_awards > 0) =>
        \A x \in StatementRows :
            /\ x.uni_degrees_total > 0
            /\ x.kind_degrees_total = 0 =>
                  ~\E r \in RefInTaxonomy :
                      KeyOn(r, RefFieldTotalCols)
                          = Restrict(x.key, RefFieldTotalCols)

\* without by_year, a rollup that matches no filtered row yields one row
\* per group of the filtered rows, each with a field total of 0
StatementOfUnmatchedRollup ==
    (RollupMatchesNoRow /\ StatementFormatted /\ ~last.args.by_year
       /\ ~IsUniOp /\ RefFiltered # {}) =>
        /\ StatementRows # {}
        /\ \A x \in StatementRows : x.kind_degrees_total = 0

\* C30: in every row the statement of any of the four query operations
\* yields, for both by_year settings, both rate denominators are strictly
\* positive, {kind}_degrees_total > 0 and uni_degrees_total > 0; a rollup
\* whose values match no fact row yields no rows.
C30_DenominatorsPositive ==
    (ValidCall /\ StatementFormatted) =>
        /\ PositiveDenominators(StatementRows)
        /\ RollupMatchesNoRow => StatementRows = {}

====
